---- MODULE Spec2Model ----
(***************************************************************************)
(* Model of the Alpenglow vote program: the VoteState record of one vote   *)
(* account, the clock / slot-hashes / epoch-schedule sysvars the program   *)
(* reads, and the instruction handlers that change the record              *)
(* (program/src/state.rs, accounting.rs, processor.rs, vote_processor.rs). *)
(***************************************************************************)
EXTENDS Integers, Sequences, FiniteSets, TLC

(***************************************************************************)
(* Bounds of the model.                                                    *)
(***************************************************************************)
\* the clock never passes this slot
MaxSlot == 6
\* EpochSchedule.slots_per_epoch of the (warm-up free) schedule sysvar
SlotsPerEpoch == 2
\* largest unix timestamp a notarization vote carries
MaxTs == 1
\* votes are processed while prev_credits + credits is at most this
MaxCredits == 20
\* largest latency latency_to_credits is applied to on its own
MaxLatency == 20
\* the clock of the voter rotations never passes this epoch
MaxEpoch == 4
\* items of the prior_voters ring of the rotated vote state (MAX_ITEMS, 32, in
\* the source), small so that the ring wraps around within MaxEpoch
PriorVotersItems == 3
\* the number of items appended to the ring of MAX_ITEMS items on its own: the
\* ring wraps around twice
MaxAppends == 66
\* largest amount commission_split is applied to
MaxSplitTotal == 25
\* largest commission byte commission_split is applied to
MaxSplitCommission == 101
\* the last epoch increment_credits is called for: the history of
\* MAX_EPOCH_CREDITS_HISTORY entries overflows before it
MaxCreditEpochs == 67
\* the epoch schedules a commission is updated under have up to this many
\* warm-up epochs, and up to 2^MaxWarmupEpochs slots per epoch
MaxWarmupEpochs == 2
\* Rent::minimum_balance of an account of the size of a VoteState, in lamports
MinRentExemptBalance == 2

(***************************************************************************)
(* Program constants.                                                      *)
(***************************************************************************)
CURRENT_NOTARIZE_VOTE_VERSION == 1
CURRENT_FINALIZE_VOTE_VERSION == 1
CURRENT_SKIP_VOTE_VERSION == 1
VOTE_CREDITS_GRACE_SLOTS == 2
VOTE_CREDITS_MAXIMUM_PER_SLOT == 16
VOTE_STATE_VERSION == 1
\* items of a CircBuf (interface crate)
MAX_ITEMS == 32
\* entries of the epoch credits history (interface crate)
MAX_EPOCH_CREDITS_HISTORY == 64

\* Pubkey::default() / Hash::default(): the all-zero value
DefaultPubkey == "default"
DefaultHash == "zero"

\* the keys: node identity, withdraw authority, initial voter
NodeKey == "node"
WithdrawKey == "withdrawer"
VoterKey == "voter"
Pubkeys == {NodeKey, WithdrawKey, VoterKey}
\* the keys that sign votes
VoteSigners == {VoterKey, NodeKey, WithdrawKey}
\* block ids and bank hashes carried by votes
BlockIds == {"b1"}
Hashes == {"h1", "h2"}
\* bank hashes the slot-hashes sysvar records
LedgerHashes == {"h1"}
\* version bytes carried by votes
Versions == {1, 2}
Slots == 0..MaxSlot
\* Option<UnixTimestamp> of a notarization vote: <<>> is None, <<t>> is Some(t)
Timestamps == {<<>>} \cup {<<t>> : t \in 0..MaxTs}

VARIABLES
    vs,           \* the VoteState stored in the vote account's data
    clock,        \* Clock sysvar: slot, epoch, leader_schedule_epoch
    slot_hashes,  \* SlotHashes sysvar: slot -> <<>> (no entry) or <<bank hash>>
    last,         \* the last instruction: its inputs, its result, vs before it
    account_lamports  \* the lamports of the vote account and of the recipient

vars == <<vs, clock, slot_hashes, last, account_lamports>>

(***************************************************************************)
(* Integer helpers of the code.                                            *)
(***************************************************************************)
\* u64::saturating_sub
SaturatingSub(a, b) == IF a >= b THEN a - b ELSE 0

\* u64::saturating_add; the values of the model stay far below u64::MAX
SaturatingAdd(a, b) == a + b

Max(a, b) == IF a >= b THEN a ELSE b

(***************************************************************************)
(* Sysvars.                                                                *)
(***************************************************************************)
\* EpochSchedule::get_epoch of a schedule without warm-up
GetEpoch(slot) == slot \div SlotsPerEpoch

\* EpochSchedule::get_leader_schedule_epoch with the default offset of one epoch
GetLeaderScheduleEpoch(slot) == GetEpoch(slot) + 1

ClockAt(slot) ==
    [slot |-> slot, epoch |-> GetEpoch(slot),
     leader_schedule_epoch |-> GetLeaderScheduleEpoch(slot)]

\* PodSlotHashes::get
SlotHashesGet(sh, slot) == IF slot \in DOMAIN sh THEN sh[slot] ELSE <<>>

(***************************************************************************)
(* VoteState (state.rs).                                                   *)
(***************************************************************************)
\* VoteState::default(): the zeroed, uninitialized record
DefaultVoteState ==
    [version |-> 0,
     node_pubkey |-> DefaultPubkey,
     authorized_withdrawer |-> DefaultPubkey,
     commission |-> 0,
     authorized_voter |-> [epoch |-> 0, voter |-> DefaultPubkey],
     next_authorized_voter |-> <<>>,
     epoch_credits |-> [epoch |-> 0, credits |-> 0, prev_credits |-> 0],
     latest_timestamp |-> [slot |-> 0, timestamp |-> 0],
     latest_notarized_slot |-> 0,
     latest_notarized_block_id |-> DefaultHash,
     latest_notarized_bank_hash |-> DefaultHash,
     latest_finalized_slot |-> 0,
     latest_finalized_block_id |-> DefaultHash,
     latest_finalized_bank_hash |-> DefaultHash,
     latest_skip_start_slot |-> 0,
     latest_skip_end_slot |-> 0]

\* VoteState::new
NewVoteState(init_data, clk) ==
    [DefaultVoteState EXCEPT
        !.version = VOTE_STATE_VERSION,
        !.node_pubkey = init_data.node_pubkey,
        !.authorized_voter = [epoch |-> clk.epoch, voter |-> init_data.authorized_voter],
        !.next_authorized_voter = <<>>,
        !.authorized_withdrawer = init_data.authorized_withdrawer,
        !.commission = init_data.commission]

\* VoteState::is_initialized
IsInitialized(s) == s.version > 0

\* get_authorized_voter that never looks at the next authorized voter
GetAuthorizedVoterOfRecord(s, epoch) ==
    IF epoch >= s.authorized_voter.epoch THEN <<s.authorized_voter.voter>> ELSE <<>>

\* VoteState::get_authorized_voter: <<>> is None
GetAuthorizedVoter(s, epoch) ==
    IF s.next_authorized_voter # <<>> /\ epoch >= s.next_authorized_voter[1].epoch
    THEN <<s.next_authorized_voter[1].voter>>
    ELSE IF epoch >= s.authorized_voter.epoch
    THEN <<s.authorized_voter.voter>>
    ELSE <<>>

\* set_vote_account_state without the test of the epoch
SetVoteAccountStateOfAnyEpoch(old, new) == [res |-> "Ok", vs |-> new]

\* VoteState::set_vote_account_state: the record is copied into the account
\* unless its authorized voter's epoch is 0
SetVoteAccountState(old, new) ==
    IF new.authorized_voter.epoch = 0
    THEN [res |-> "InvalidArgument", vs |-> old]
    ELSE [res |-> "Ok", vs |-> new]

(***************************************************************************)
(* Vote processor (vote_processor.rs).  A handler is an operator from the  *)
(* record and the instruction's inputs to [res, vs, award]: the returned   *)
(* result, the record as the handler leaves it (the handlers write through *)
(* a mutable reference, so writes made before an error return stay), and   *)
(* the arguments of the award_credits call it made (<<>> if none).         *)
(***************************************************************************)
\* replay_bank_hash_checks that only looks for an entry of the slot
replay_bank_hash_checks_any_hash(replayed_slot, replayed_bank_hash, sh) ==
    IF SlotHashesGet(sh, replayed_slot) = <<>> THEN "SlotHashesMissingKey" ELSE "Ok"

\* replay_bank_hash_checks; PodSlotHashes::get itself does not fail once the
\* sysvar was fetched
replay_bank_hash_checks(replayed_slot, replayed_bank_hash, sh) ==
    LET entry == SlotHashesGet(sh, replayed_slot) IN
    IF entry = <<>> THEN "SlotHashesMissingKey"
    ELSE IF replayed_bank_hash # entry[1] THEN "ReplayBankHashMismatch"
    ELSE "Ok"

\* latency_to_credits whose ramp forgets the + 1 and ends at 0
latency_to_credits_ramp_to_zero(latency) ==
    LET kink_lo == VOTE_CREDITS_GRACE_SLOTS
        kink_hi == VOTE_CREDITS_MAXIMUM_PER_SLOT + VOTE_CREDITS_GRACE_SLOTS - 1
    IN  IF latency <= kink_lo THEN VOTE_CREDITS_MAXIMUM_PER_SLOT
        ELSE IF kink_lo < latency /\ latency <= kink_hi
        THEN SaturatingSub(kink_hi, latency)
        ELSE 1

latency_to_credits(latency) ==
    LET kink_lo == VOTE_CREDITS_GRACE_SLOTS
        kink_hi == VOTE_CREDITS_MAXIMUM_PER_SLOT + VOTE_CREDITS_GRACE_SLOTS - 1
    IN  IF latency <= kink_lo THEN VOTE_CREDITS_MAXIMUM_PER_SLOT
        ELSE IF kink_lo < latency /\ latency <= kink_hi
        THEN SaturatingSub(SaturatingAdd(kink_hi, 1), latency)
        ELSE 1

\* award_credits that forgets to roll credits into prev_credits in a new epoch
award_credits_without_roll(epoch_credits, latest_vote_slot, earned_credits) ==
    LET vote_epoch == GetEpoch(latest_vote_slot) IN
    IF vote_epoch = epoch_credits.epoch
    THEN [res |-> "Ok",
          epoch_credits |->
              [epoch_credits EXCEPT !.credits = SaturatingAdd(@, earned_credits)]]
    ELSE IF vote_epoch < epoch_credits.epoch
    THEN [res |-> "Unreachable", epoch_credits |-> epoch_credits]
    ELSE [res |-> "Ok",
          epoch_credits |->
              [epoch |-> vote_epoch,
               prev_credits |-> epoch_credits.prev_credits,
               credits |-> earned_credits]]

\* award_credits on the epoch_credits field: [res, epoch_credits]
award_credits(epoch_credits, latest_vote_slot, earned_credits) ==
    LET vote_epoch == GetEpoch(latest_vote_slot) IN
    IF vote_epoch = epoch_credits.epoch
    THEN [res |-> "Ok",
          epoch_credits |->
              [epoch_credits EXCEPT !.credits = SaturatingAdd(@, earned_credits)]]
    ELSE IF vote_epoch < epoch_credits.epoch
    THEN [res |-> "Unreachable", epoch_credits |-> epoch_credits]
    ELSE [res |-> "Ok",
          epoch_credits |->
              [epoch |-> vote_epoch,
               prev_credits |->
                   SaturatingAdd(epoch_credits.prev_credits, epoch_credits.credits),
               credits |-> earned_credits]]

\* the signer check that also lets the node identity vote
VoterMismatchUnlessNode(s, vote_authority) ==
    s.authorized_voter.voter # vote_authority /\ s.node_pubkey # vote_authority

\* process_notarization_vote, line 236: the signer must be the authorized voter
VoterMismatch(s, vote_authority) == s.authorized_voter.voter # vote_authority

\* the check of line 241 with < for <=: a vote for the latest slot passes
NotarizationVoteTooOldStrict(s, vote_slot) == vote_slot < s.latest_notarized_slot

\* process_notarization_vote, line 241
NotarizationVoteTooOld(s, vote_slot) == vote_slot <= s.latest_notarized_slot

\* the check of line 293 with < for <=: a vote for the latest slot passes
FinalizationVoteTooOldStrict(s, vote_slot) == vote_slot < s.latest_finalized_slot

\* process_finalization_vote, line 293
FinalizationVoteTooOld(s, vote_slot) == vote_slot <= s.latest_finalized_slot

\* the check of lines 297-298 with the end of the skip range left out
SkipRangeContainsVoteOpenEnd(s, vote_slot) ==
    s.latest_skip_start_slot <= vote_slot /\ vote_slot < s.latest_skip_end_slot

\* process_finalization_vote, lines 297-298
SkipRangeContainsVote(s, vote_slot) ==
    s.latest_skip_start_slot <= vote_slot /\ vote_slot <= s.latest_skip_end_slot

\* the check of line 343 with < for the first <=
VoteRangeContainsFinalizedOpenStart(s, vote_start_slot, vote_end_slot) ==
    vote_start_slot < s.latest_finalized_slot
        /\ s.latest_finalized_slot <= vote_end_slot

\* process_skip_vote, line 343
VoteRangeContainsFinalized(s, vote_start_slot, vote_end_slot) ==
    vote_start_slot <= s.latest_finalized_slot
        /\ s.latest_finalized_slot <= vote_end_slot

\* process_notarization_vote, line 252
TimestampAccepted(s, timestamp) ==
    timestamp # 0 /\ timestamp > s.latest_timestamp.timestamp

\* process_notarization_vote / process_finalization_vote, lines 266 and 311:
\* the amount handed to award_credits
BlockVoteEarnedCredits(clk, vote_slot) == SaturatingSub(clk.slot, vote_slot)

\* the tail of both block-vote handlers: award_credits on the record s
AwardBlockVote(s, clk, vote_slot) ==
    LET earned_credits == BlockVoteEarnedCredits(clk, vote_slot)
        r == award_credits(s.epoch_credits, vote_slot, earned_credits)
    IN  [res |-> r.res,
         vs |-> [s EXCEPT !.epoch_credits = r.epoch_credits],
         award |-> <<[latest_vote_slot |-> vote_slot,
                      earned_credits |-> earned_credits]>>]

process_notarization_vote(s, vote_authority, clk, sh, vote) ==
    IF vote.version # CURRENT_NOTARIZE_VOTE_VERSION
    THEN [res |-> "VersionMismatch", vs |-> s, award |-> <<>>]
    ELSE IF VoterMismatch(s, vote_authority)
    THEN [res |-> "MissingRequiredSignature", vs |-> s, award |-> <<>>]
    ELSE IF NotarizationVoteTooOld(s, vote.slot)
    THEN [res |-> "VoteTooOld", vs |-> s, award |-> <<>>]
    ELSE LET replay == replay_bank_hash_checks(vote.slot, vote.replayed_bank_hash, sh) IN
    IF replay # "Ok"
    THEN [res |-> replay, vs |-> s, award |-> <<>>]
    ELSE LET s1 == [s EXCEPT !.latest_notarized_slot = vote.slot,
                             !.latest_notarized_block_id = vote.block_id,
                             !.latest_notarized_bank_hash = vote.replayed_bank_hash]
         IN
    IF vote.timestamp # <<>> /\ ~TimestampAccepted(s1, vote.timestamp[1])
    THEN [res |-> "TimestampTooOld", vs |-> s1, award |-> <<>>]
    ELSE LET s2 == IF vote.timestamp # <<>>
                   THEN [s1 EXCEPT !.latest_timestamp =
                            [slot |-> vote.slot, timestamp |-> vote.timestamp[1]]]
                   ELSE s1
         IN  AwardBlockVote(s2, clk, vote.slot)

\* process_finalization_vote that checks the replay before the skip range
process_finalization_vote_replay_first(s, vote_authority, clk, sh, vote) ==
    IF vote.version # CURRENT_FINALIZE_VOTE_VERSION
    THEN [res |-> "VersionMismatch", vs |-> s, award |-> <<>>]
    ELSE IF VoterMismatch(s, vote_authority)
    THEN [res |-> "MissingRequiredSignature", vs |-> s, award |-> <<>>]
    ELSE IF FinalizationVoteTooOld(s, vote.slot)
    THEN [res |-> "VoteTooOld", vs |-> s, award |-> <<>>]
    ELSE LET replay == replay_bank_hash_checks(vote.slot, vote.replayed_bank_hash, sh) IN
    IF replay # "Ok"
    THEN [res |-> replay, vs |-> s, award |-> <<>>]
    ELSE IF SkipRangeContainsVote(s, vote.slot)
    THEN [res |-> "SkipSlotRangeContainsFinalizationVote", vs |-> s, award |-> <<>>]
    ELSE LET s1 == [s EXCEPT !.latest_finalized_slot = vote.slot,
                             !.latest_finalized_block_id = vote.block_id,
                             !.latest_finalized_bank_hash = vote.replayed_bank_hash]
         IN  AwardBlockVote(s1, clk, vote.slot)

process_finalization_vote(s, vote_authority, clk, sh, vote) ==
    IF vote.version # CURRENT_FINALIZE_VOTE_VERSION
    THEN [res |-> "VersionMismatch", vs |-> s, award |-> <<>>]
    ELSE IF VoterMismatch(s, vote_authority)
    THEN [res |-> "MissingRequiredSignature", vs |-> s, award |-> <<>>]
    ELSE IF FinalizationVoteTooOld(s, vote.slot)
    THEN [res |-> "VoteTooOld", vs |-> s, award |-> <<>>]
    ELSE IF SkipRangeContainsVote(s, vote.slot)
    THEN [res |-> "SkipSlotRangeContainsFinalizationVote", vs |-> s, award |-> <<>>]
    ELSE LET replay == replay_bank_hash_checks(vote.slot, vote.replayed_bank_hash, sh) IN
    IF replay # "Ok"
    THEN [res |-> replay, vs |-> s, award |-> <<>>]
    ELSE LET s1 == [s EXCEPT !.latest_finalized_slot = vote.slot,
                             !.latest_finalized_block_id = vote.block_id,
                             !.latest_finalized_bank_hash = vote.replayed_bank_hash]
         IN  AwardBlockVote(s1, clk, vote.slot)

\* the check of line 181 with >= for >
SkipEndReachesClock(clk, vote_end_slot) == vote_end_slot >= clk.slot

\* process_skip_credits, line 181
SkipEndExceedsClock(clk, vote_end_slot) == vote_end_slot > clk.slot

\* lines 185-188 without the step past the recorded skip end
EligibleSkipStartAtEnd(s, vote_start_slot) ==
    Max(s.latest_skip_end_slot, vote_start_slot)

\* process_skip_credits, lines 185-188
EligibleSkipStart(s, vote_start_slot) ==
    Max(SaturatingAdd(s.latest_skip_end_slot, 1), vote_start_slot)

\* line 201 without the exception of the clock's slot
SkipSlotEarnsAtClock(clk, sh, skip_slot) ==
    SlotHashesGet(sh, skip_slot) = <<>>

\* process_skip_credits, line 201: the slot earns skip credit
SkipSlotEarns(clk, sh, skip_slot) ==
    SlotHashesGet(sh, skip_slot) = <<>> /\ skip_slot # clk.slot

\* process_skip_credits, lines 193-212: the loop from skip_slot to vote_end_slot
\* over acc = [earned_credits, latest_vote_slot]
RECURSIVE SkipCreditsLoop(_, _, _, _, _)
SkipCreditsLoop(skip_slot, vote_end_slot, clk, sh, acc) ==
    IF skip_slot > vote_end_slot THEN acc
    ELSE SkipCreditsLoop(skip_slot + 1, vote_end_slot, clk, sh,
            IF SkipSlotEarns(clk, sh, skip_slot)
            THEN [earned_credits |->
                      SaturatingAdd(acc.earned_credits,
                          latency_to_credits(SaturatingSub(clk.slot, skip_slot))),
                  latest_vote_slot |-> skip_slot]
            ELSE acc)

process_skip_credits(s, vote_start_slot, vote_end_slot, clk, sh) ==
    IF SkipEndExceedsClock(clk, vote_end_slot)
    THEN [res |-> "SkipEndSlotExceedsCurrentSlot", vs |-> s, award |-> <<>>]
    ELSE LET acc == SkipCreditsLoop(EligibleSkipStart(s, vote_start_slot),
                        vote_end_slot, clk, sh,
                        [earned_credits |-> 0, latest_vote_slot |-> 0])
             r == award_credits(s.epoch_credits, acc.latest_vote_slot, acc.earned_credits)
         IN  [res |-> r.res,
              vs |-> [s EXCEPT !.epoch_credits = r.epoch_credits],
              award |-> <<acc>>]

process_skip_vote(s, vote_authority, clk, sh, vote) ==
    IF vote.version # CURRENT_SKIP_VOTE_VERSION
    THEN [res |-> "VersionMismatch", vs |-> s, award |-> <<>>]
    ELSE IF VoterMismatch(s, vote_authority)
    THEN [res |-> "MissingRequiredSignature", vs |-> s, award |-> <<>>]
    ELSE IF vote.end_slot < vote.start_slot
    THEN [res |-> "SkipEndSlotLowerThanSkipStartSlot", vs |-> s, award |-> <<>>]
    ELSE IF VoteRangeContainsFinalized(s, vote.start_slot, vote.end_slot)
    THEN [res |-> "SkipSlotRangeContainsFinalizationVote", vs |-> s, award |-> <<>>]
    ELSE LET r == process_skip_credits(s, vote.start_slot, vote.end_slot, clk, sh) IN
    IF r.res # "Ok" THEN r
    ELSE [res |-> "Ok",
          vs |-> [r.vs EXCEPT !.latest_skip_start_slot = vote.start_slot,
                              !.latest_skip_end_slot = vote.end_slot],
          award |-> r.award]

(***************************************************************************)
(* Accounting and initialization (accounting.rs, processor.rs).            *)
(***************************************************************************)
\* initialize_account that writes the new record whatever the account holds
initialize_account_over(s, init_data, clk) ==
    SetVoteAccountState(s, NewVoteState(init_data, clk))

\* initialize_account; the account has the size of a VoteState
initialize_account(s, init_data, clk) ==
    IF IsInitialized(s)
    THEN [res |-> "AccountAlreadyInitialized", vs |-> s]
    ELSE SetVoteAccountState(s, NewVoteState(init_data, clk))

\* process_instruction, InitializeAccount: the account holds balance lamports,
\* node_signer is the key that signed as the node
process_initialize_account(s, balance, node_signer, init_data, clk) ==
    IF balance < MinRentExemptBalance
    THEN [res |-> "InsufficientFunds", vs |-> s]
    ELSE IF init_data.node_pubkey # node_signer
    THEN [res |-> "MissingRequiredSignature", vs |-> s]
    ELSE initialize_account(s, init_data, clk)

\* a new voter that takes effect in the epoch of the clock
EpochInEffectAtOnce(clk) == clk.epoch

\* authorize, lines 66-69: the epoch a new voter takes effect in, the one after
\* the leader schedule epoch (checked_add cannot overflow within the bounds)
EpochInEffect(clk) == clk.leader_schedule_epoch + 1

\* authorize that keeps a voter that is already pending
authorize_keeping_pending(s, new_authority, vote_authorize, authority, clk) ==
    IF vote_authorize = "Voter"
    THEN IF s.authorized_withdrawer # authority /\ s.authorized_voter.voter # authority
         THEN [res |-> "MissingRequiredSignature", vs |-> s]
         ELSE [res |-> "Ok",
               vs |-> IF s.next_authorized_voter # <<>> THEN s
                      ELSE [s EXCEPT !.next_authorized_voter =
                               <<[epoch |-> EpochInEffect(clk),
                                  voter |-> new_authority]>>]]
    ELSE IF s.authorized_withdrawer # authority
         THEN [res |-> "MissingRequiredSignature", vs |-> s]
         ELSE [res |-> "Ok", vs |-> [s EXCEPT !.authorized_withdrawer = new_authority]]

\* authorize
authorize(s, new_authority, vote_authorize, authority, clk) ==
    IF vote_authorize = "Voter"
    THEN IF s.authorized_withdrawer # authority /\ s.authorized_voter.voter # authority
         THEN [res |-> "MissingRequiredSignature", vs |-> s]
         ELSE [res |-> "Ok",
               vs |-> [s EXCEPT !.next_authorized_voter =
                          <<[epoch |-> EpochInEffect(clk),
                             voter |-> new_authority]>>]]
    ELSE IF s.authorized_withdrawer # authority
         THEN [res |-> "MissingRequiredSignature", vs |-> s]
         ELSE [res |-> "Ok", vs |-> [s EXCEPT !.authorized_withdrawer = new_authority]]

\* withdraw: [res, vs, lamports]; balances holds the lamports of the vote
\* account and of the recipient, which stay far below u64::MAX
withdraw(s, balances, lamports, withdraw_pubkey, clk) ==
    LET moved == [vote_account |-> balances.vote_account - lamports,
                  recipient |-> balances.recipient + lamports]
    IN
    IF s.authorized_withdrawer # withdraw_pubkey
    THEN [res |-> "MissingRequiredSignature", vs |-> s, lamports |-> balances]
    ELSE IF lamports > balances.vote_account
    THEN [res |-> "InsufficientFunds", vs |-> s, lamports |-> balances]
    ELSE IF balances.vote_account - lamports = 0
    THEN IF SaturatingSub(clk.epoch, s.epoch_credits.epoch) < 2
         THEN [res |-> "ActiveVoteAccountClose", vs |-> s, lamports |-> balances]
         ELSE LET written == SetVoteAccountState(s, DefaultVoteState) IN
              IF written.res # "Ok"
              THEN [res |-> written.res, vs |-> written.vs, lamports |-> balances]
              ELSE [res |-> "Ok", vs |-> written.vs, lamports |-> moved]
    ELSE IF balances.vote_account - lamports < MinRentExemptBalance
    THEN [res |-> "InsufficientFunds", vs |-> s, lamports |-> balances]
    ELSE [res |-> "Ok", vs |-> s, lamports |-> moved]

\* update_validator_identity that takes the new identity from any signer
update_validator_identity_unsigned(s, new_node_pubkey, withdraw_pubkey) ==
    [res |-> "Ok", vs |-> [s EXCEPT !.node_pubkey = new_node_pubkey]]

\* update_validator_identity
update_validator_identity(s, new_node_pubkey, withdraw_pubkey) ==
    IF s.authorized_withdrawer # withdraw_pubkey
    THEN [res |-> "MissingRequiredSignature", vs |-> s]
    ELSE [res |-> "Ok", vs |-> [s EXCEPT !.node_pubkey = new_node_pubkey]]

\* is_commission_update_allowed; checked_rem is None for no slots per epoch
is_commission_update_allowed(slot, epoch_schedule) ==
    IF epoch_schedule.slots_per_epoch # 0
    THEN LET relative_slot == SaturatingSub(slot, epoch_schedule.first_normal_slot)
                                  % epoch_schedule.slots_per_epoch
         IN  relative_slot * 2 <= epoch_schedule.slots_per_epoch
    ELSE TRUE

\* update_commission
update_commission(s, commission, withdraw_pubkey, epoch_schedule, clk) ==
    LET is_commission_increase == commission > s.commission IN
    IF s.authorized_withdrawer # withdraw_pubkey
    THEN [res |-> "MissingRequiredSignature", vs |-> s]
    ELSE IF ~is_commission_increase
            /\ ~is_commission_update_allowed(clk.slot, epoch_schedule)
    THEN [res |-> "CommissionUpdateTooLate", vs |-> s]
    ELSE [res |-> "Ok", vs |-> [s EXCEPT !.commission = commission]]

(***************************************************************************)
(* The vote state of the interface crate (interface/src/state/mod.rs): its *)
(* authorized voters, an epoch -> pubkey map, and its ring of prior        *)
(* voters.  The operations of AuthorizedVoters (authorized_voters.rs) are  *)
(* written as set_new_authorized_voter, get_and_update_authorized_voter    *)
(* and the tests of state/mod.rs use them.                                 *)
(***************************************************************************)
\* the greatest element of a nonempty set of epochs
MaxOf(epochs) == CHOOSE e \in epochs : \A f \in epochs : f <= e

\* AuthorizedVoters::new
AuthorizedVotersNew(epoch, pubkey) == [e \in {epoch} |-> pubkey]

\* AuthorizedVoters::insert
AuthorizedVotersInsert(av, epoch, pubkey) ==
    [e \in DOMAIN av \cup {epoch} |-> IF e = epoch THEN pubkey ELSE av[e]]

\* AuthorizedVoters::contains
AuthorizedVotersContains(av, epoch) == epoch \in DOMAIN av

\* AuthorizedVoters::last: <<>> is None, else <<epoch, pubkey>>
AuthorizedVotersLast(av) ==
    IF DOMAIN av = {} THEN <<>>
    ELSE <<MaxOf(DOMAIN av), av[MaxOf(DOMAIN av)]>>

\* AuthorizedVoters::get_authorized_voter: the voter of the latest entry at or
\* before the epoch; <<>> is None
AuthorizedVotersGet(av, epoch) ==
    LET upto == {e \in DOMAIN av : e <= epoch} IN
    IF upto = {} THEN <<>> ELSE <<av[MaxOf(upto)]>>

\* AuthorizedVoters::get_and_cache_authorized_voter_for_epoch: the voter found
\* is entered for the epoch itself; [res, av]
get_and_cache_authorized_voter_for_epoch(av, epoch) ==
    LET found == AuthorizedVotersGet(av, epoch) IN
    IF found = <<>> THEN [res |-> <<>>, av |-> av]
    ELSE [res |-> found, av |-> AuthorizedVotersInsert(av, epoch, found[1])]

\* AuthorizedVoters::purge_authorized_voters: the entries before the epoch go
purge_authorized_voters(av, current_epoch) ==
    [e \in {f \in DOMAIN av : f >= current_epoch} |-> av[e]]

\* CircBuf::default with n items: buf[i + 1] is the item at index i
CircBufDefault(n) ==
    [buf |-> [i \in 1..n |-> <<DefaultPubkey, 0, 0>>], idx |-> n - 1, is_empty |-> TRUE]

\* append that leaves is_empty as it was
CircBufAppendKeepsEmpty(cb, item) ==
    LET idx == (cb.idx + 1) % Len(cb.buf) IN
    [buf |-> [cb.buf EXCEPT ![idx + 1] = item], idx |-> idx, is_empty |-> cb.is_empty]

\* CircBuf::append
CircBufAppend(cb, item) ==
    LET idx == (cb.idx + 1) % Len(cb.buf) IN
    [buf |-> [cb.buf EXCEPT ![idx + 1] = item], idx |-> idx, is_empty |-> FALSE]

\* CircBuf::last: <<>> is None
CircBufLast(cb) == IF ~cb.is_empty THEN <<cb.buf[cb.idx + 1]>> ELSE <<>>

\* increment_credits that never removes an entry
increment_credits_keeping_all(s, epoch, credits) ==
    LET ec == s.epoch_credits
        latest == ec[Len(ec)]
        entered == IF ec = <<>> THEN <<<<epoch, 0, 0>>>>
                   ELSE IF epoch # latest[1]
                   THEN IF latest[2] # latest[3]
                        THEN Append(ec, <<epoch, latest[2], latest[2]>>)
                        ELSE [ec EXCEPT ![Len(ec)][1] = epoch]
                   ELSE ec
    IN  [s EXCEPT !.epoch_credits = [entered EXCEPT ![Len(entered)][2] = @ + credits]]

\* VoteState::increment_credits; an entry of epoch_credits is
\* <<epoch, credits, prev_credits>>, and the credits stay far below u64::MAX
increment_credits(s, epoch, credits) ==
    LET ec == s.epoch_credits
        latest == ec[Len(ec)]
        pushed == IF latest[2] # latest[3]
                  THEN Append(ec, <<epoch, latest[2], latest[2]>>)
                  ELSE [ec EXCEPT ![Len(ec)][1] = epoch]
        entered == IF ec = <<>> THEN <<<<epoch, 0, 0>>>>
                   ELSE IF epoch # latest[1]
                   THEN IF Len(pushed) > MAX_EPOCH_CREDITS_HISTORY
                        THEN Tail(pushed) ELSE pushed
                   ELSE ec
    IN  [s EXCEPT !.epoch_credits = [entered EXCEPT ![Len(entered)][2] = @ + credits]]

\* VoteState::credits
InterfaceCredits(s) ==
    IF s.epoch_credits = <<>> THEN 0 ELSE s.epoch_credits[Len(s.epoch_credits)][2]

\* process_timestamp that compares the slots only
process_timestamp_by_slot(s, slot, timestamp) ==
    IF \/ slot < s.last_timestamp.slot
       \/ /\ slot = s.last_timestamp.slot
          /\ [slot |-> slot, timestamp |-> timestamp] # s.last_timestamp
          /\ s.last_timestamp.slot # 0
    THEN [res |-> "TimestampTooOld", vs |-> s]
    ELSE [res |-> "Ok",
          vs |-> [s EXCEPT !.last_timestamp = [slot |-> slot, timestamp |-> timestamp]]]

\* VoteState::process_timestamp (interface crate)
process_timestamp(s, slot, timestamp) ==
    IF \/ (slot < s.last_timestamp.slot \/ timestamp < s.last_timestamp.timestamp)
       \/ /\ slot = s.last_timestamp.slot
          /\ [slot |-> slot, timestamp |-> timestamp] # s.last_timestamp
          /\ s.last_timestamp.slot # 0
    THEN [res |-> "TimestampTooOld", vs |-> s]
    ELSE [res |-> "Ok",
          vs |-> [s EXCEPT !.last_timestamp = [slot |-> slot, timestamp |-> timestamp]]]

\* commission_split that gives the staker what is left of the amount
commission_split_of_remainder(commission, on) ==
    LET split == IF commission < 100 THEN commission ELSE 100 IN
    IF split = 0 THEN <<0, on, FALSE>>
    ELSE IF split = 100 THEN <<on, 0, FALSE>>
    ELSE <<(on * split) \div 100, on - ((on * split) \div 100), TRUE>>

\* VoteState::commission_split of a vote state with the commission:
\* <<voter portion, staker portion, was_split>>; the products are taken in
\* u128 and do not overflow
commission_split(commission, on) ==
    LET split == IF commission < 100 THEN commission ELSE 100 IN
    IF split = 0 THEN <<0, on, FALSE>>
    ELSE IF split = 100 THEN <<on, 0, FALSE>>
    ELSE <<(on * split) \div 100, (on * (100 - split)) \div 100, TRUE>>

\* VoteState::default of the interface crate, with a ring of n items
InterfaceVoteStateDefault(n) ==
    [node_pubkey |-> DefaultPubkey,
     authorized_withdrawer |-> DefaultPubkey,
     commission |-> 0,
     votes |-> <<>>,
     authorized_voters |-> <<>>,
     prior_voters |-> CircBufDefault(n),
     epoch_credits |-> <<>>,
     last_timestamp |-> [slot |-> 0, timestamp |-> 0]]

\* VoteState::new of the interface crate
InterfaceVoteStateNew(vote_init, clk, n) ==
    [InterfaceVoteStateDefault(n) EXCEPT
        !.node_pubkey = vote_init.node_pubkey,
        !.authorized_voters = AuthorizedVotersNew(clk.epoch, vote_init.authorized_voter),
        !.authorized_withdrawer = vote_init.authorized_withdrawer,
        !.commission = vote_init.commission]

\* get_and_update_authorized_voter that looks the voter up without entering it
\* for the current epoch
get_and_update_authorized_voter_uncached(s, current_epoch) ==
    LET found == AuthorizedVotersGet(s.authorized_voters, current_epoch) IN
    IF found = <<>>
    THEN [res |-> "InvalidAccountData", pubkey |-> DefaultPubkey, vs |-> s]
    ELSE [res |-> "Ok", pubkey |-> found[1],
          vs |-> [s EXCEPT !.authorized_voters =
                     purge_authorized_voters(s.authorized_voters, current_epoch)]]

\* VoteState::get_and_update_authorized_voter: [res, pubkey, vs]
get_and_update_authorized_voter(s, current_epoch) ==
    LET cached == get_and_cache_authorized_voter_for_epoch(s.authorized_voters,
                                                           current_epoch)
    IN  IF cached.res = <<>>
        THEN [res |-> "InvalidAccountData", pubkey |-> DefaultPubkey,
              vs |-> [s EXCEPT !.authorized_voters = cached.av]]
        ELSE [res |-> "Ok", pubkey |-> cached.res[1],
              vs |-> [s EXCEPT !.authorized_voters =
                         purge_authorized_voters(cached.av, current_epoch)]]

\* the verify callback of a caller that holds the signature of one key
Verify(signer, pubkey) == IF pubkey = signer THEN "Ok" ELSE "MissingRequiredSignature"

\* the check of line 622 left out
TargetEpochNeverTaken(s, target_epoch) == FALSE

\* set_new_authorized_voter, line 622: a voter is entered for the target epoch
TargetEpochTaken(s, target_epoch) ==
    AuthorizedVotersContains(s.authorized_voters, target_epoch)

\* the comparison of line 632 left out: every rotation counts as a switch
VoterAlwaysSwitched(latest_authorized_pubkey, authorized_pubkey) == TRUE

\* set_new_authorized_voter, line 632: the new voter is not the latest one
VoterSwitched(latest_authorized_pubkey, authorized_pubkey) ==
    latest_authorized_pubkey # authorized_pubkey

\* the check of line 643 left out
TargetEpochAnywhere(target_epoch, latest_epoch) == FALSE

\* set_new_authorized_voter, line 643
TargetEpochNotAfterLatest(target_epoch, latest_epoch) == target_epoch <= latest_epoch

\* VoteState::set_new_authorized_voter: [res, vs]; the record is changed
\* through &mut self, what was written before an error return stays
set_new_authorized_voter(s, authorized_pubkey, current_epoch, target_epoch, signer) ==
    LET updated == get_and_update_authorized_voter(s, current_epoch)
        s1 == updated.vs
    IN
    IF updated.res # "Ok" THEN [res |-> updated.res, vs |-> s1]
    ELSE IF Verify(signer, updated.pubkey) # "Ok"
    THEN [res |-> Verify(signer, updated.pubkey), vs |-> s1]
    ELSE IF TargetEpochTaken(s1, target_epoch)
    THEN [res |-> "TooSoonToReauthorize", vs |-> s1]
    ELSE LET latest == AuthorizedVotersLast(s1.authorized_voters) IN
    IF latest = <<>> THEN [res |-> "InvalidAccountData", vs |-> s1]
    ELSE LET latest_epoch == latest[1]
             latest_authorized_pubkey == latest[2]
             switched == VoterSwitched(latest_authorized_pubkey, authorized_pubkey)
             last_range == CircBufLast(s1.prior_voters)
             epoch_of_last_authorized_switch ==
                 IF last_range = <<>> THEN 0 ELSE last_range[1][3]
         IN
    IF switched /\ TargetEpochNotAfterLatest(target_epoch, latest_epoch)
    THEN [res |-> "InvalidAccountData", vs |-> s1]
    ELSE LET s2 == IF switched
                   THEN [s1 EXCEPT !.prior_voters =
                            CircBufAppend(@, <<latest_authorized_pubkey,
                                               epoch_of_last_authorized_switch,
                                               target_epoch>>)]
                   ELSE s1
         IN  [res |-> "Ok",
              vs |-> [s2 EXCEPT !.authorized_voters =
                         AuthorizedVotersInsert(@, target_epoch, authorized_pubkey)]]

(***************************************************************************)
(* The state machine: one action per instruction, and the clock.           *)
(***************************************************************************)
\* inputs of InitializeAccount
InitNodeKeys == {NodeKey}
InitWithdrawers == {WithdrawKey}
InitVoters == {VoterKey}
InitCommissions == {10}
\* inputs of Authorize
AuthorityTypes == {"Voter"}
NewAuthorities == {NodeKey}

NoVote == [version |-> 0]

\* no instruction is being processed
Idle ==
    [op |-> "none", res |-> "Ok", pre |-> DefaultVoteState,
     authority |-> DefaultPubkey, vote |-> NoVote, award |-> <<>>]

\* a vote account holding the rent-exempt minimum, and an empty recipient
FundedAccount == [vote_account |-> MinRentExemptBalance, recipient |-> 0]

\* the slot of the clock when the account is created: the last slot of epoch 1
\* (an account cannot be initialized in epoch 0, see SetVoteAccountState)
FirstSlot == 2 * SlotsPerEpoch - 1

\* the account right after InitializeAccount succeeded
Init ==
    /\ \E node \in InitNodeKeys, voter \in InitVoters,
          withdrawer \in InitWithdrawers, commission \in InitCommissions :
          vs = NewVoteState([node_pubkey |-> node, authorized_voter |-> voter,
                             authorized_withdrawer |-> withdrawer,
                             commission |-> commission], ClockAt(FirstSlot))
    /\ clock = ClockAt(FirstSlot)
    /\ slot_hashes = [s \in Slots |-> <<>>]
    /\ last = Idle
    /\ account_lamports = FundedAccount

\* the result of the last instruction is handed back to the runtime, the next
\* instruction can be processed
Return ==
    /\ last.op # "none"
    /\ last' = Idle
    /\ UNCHANGED <<vs, clock, slot_hashes, account_lamports>>

\* the bank of a later slot begins: the sysvars move on and the slot left
\* behind gets its bank hash recorded; the slots jumped over have no entry
AdvanceClock ==
    \E next_slot \in Slots, h \in LedgerHashes :
        /\ last.op = "none"
        /\ next_slot > clock.slot
        /\ clock' = ClockAt(next_slot)
        /\ slot_hashes' = [slot_hashes EXCEPT ![clock.slot] = <<h>>]
        /\ UNCHANGED <<vs, last, account_lamports>>

InitializeAccount ==
    \E node \in InitNodeKeys, voter \in InitVoters,
       withdrawer \in InitWithdrawers, commission \in InitCommissions :
        LET init_data == [node_pubkey |-> node, authorized_voter |-> voter,
                          authorized_withdrawer |-> withdrawer,
                          commission |-> commission]
            r == process_initialize_account(vs, account_lamports.vote_account, node,
                                            init_data, clock)
        IN  /\ last.op = "none"
            /\ vs' = r.vs
            /\ last' = [op |-> "initialize", res |-> r.res, pre |-> vs,
                        authority |-> node, vote |-> NoVote, award |-> <<>>]
            /\ UNCHANGED <<clock, slot_hashes, account_lamports>>

Authorize ==
    \E new_authority \in NewAuthorities, vote_authorize \in AuthorityTypes,
       authority \in Pubkeys :
        LET r == authorize(vs, new_authority, vote_authorize, authority, clock) IN
            /\ last.op = "none"
            /\ vs' = r.vs
            /\ last' = [op |-> "authorize", res |-> r.res, pre |-> vs,
                        authority |-> authority,
                        vote |-> [version |-> 0, new_authority |-> new_authority,
                                  vote_authorize |-> vote_authorize],
                        award |-> <<>>]
            /\ UNCHANGED <<clock, slot_hashes, account_lamports>>

\* the credit counters are within the model's bound
CreditsInBound == vs.epoch_credits.prev_credits + vs.epoch_credits.credits <= MaxCredits

\* The instructions submitted.  A handler returns at its first failing check,
\* so the inputs that fail the version or the signer check, or carry a bank
\* hash the ledger never records, come with one choice of the fields that are
\* read after that check.
NotarizationVotes ==
    [version : {CURRENT_NOTARIZE_VOTE_VERSION}, slot : Slots, block_id : BlockIds,
     replayed_bank_hash : LedgerHashes, timestamp : Timestamps]
    \cup [version : {CURRENT_NOTARIZE_VOTE_VERSION}, slot : Slots, block_id : BlockIds,
          replayed_bank_hash : Hashes \ LedgerHashes, timestamp : {<<>>}]
    \cup [version : Versions \ {CURRENT_NOTARIZE_VOTE_VERSION}, slot : {FirstSlot},
          block_id : BlockIds, replayed_bank_hash : LedgerHashes, timestamp : {<<>>}]

FinalizationVotes ==
    [version : {CURRENT_FINALIZE_VOTE_VERSION}, slot : Slots, block_id : BlockIds,
     replayed_bank_hash : Hashes]
    \cup [version : Versions \ {CURRENT_FINALIZE_VOTE_VERSION}, slot : {FirstSlot},
          block_id : BlockIds, replayed_bank_hash : LedgerHashes]

SkipVotes ==
    [version : {CURRENT_SKIP_VOTE_VERSION}, start_slot : Slots, end_slot : Slots]
    \cup [version : Versions \ {CURRENT_SKIP_VOTE_VERSION}, start_slot : {FirstSlot},
          end_slot : {FirstSlot}]

\* one vote of each kind, for the first slot of the account
FirstNotarizationVotes ==
    [version : {CURRENT_NOTARIZE_VOTE_VERSION}, slot : {FirstSlot}, block_id : BlockIds,
     replayed_bank_hash : LedgerHashes, timestamp : {<<>>}]

FirstFinalizationVotes ==
    [version : {CURRENT_FINALIZE_VOTE_VERSION}, slot : {FirstSlot}, block_id : BlockIds,
     replayed_bank_hash : LedgerHashes]

FirstSkipVotes ==
    [version : {CURRENT_SKIP_VOTE_VERSION}, start_slot : {FirstSlot + 1},
     end_slot : {FirstSlot + 1}]

\* signed instructions: every vote signed by the initial voter, the first-slot
\* votes signed by the other keys
Signed(votes, first_votes) ==
    ({VoterKey} \X votes) \cup ((VoteSigners \ {VoterKey}) \X first_votes)

\* Notarize (and NotarizeFallback) with the inputs <<signer, vote>> of the set
NotarizeOf(inputs) ==
    \E in \in inputs :
        LET r == process_notarization_vote(vs, in[1], clock, slot_hashes, in[2])
        IN  /\ last.op = "none"
            /\ CreditsInBound
            /\ vs' = r.vs
            /\ last' = [op |-> "notarize", res |-> r.res, pre |-> vs,
                        authority |-> in[1], vote |-> in[2], award |-> r.award]
            /\ UNCHANGED <<clock, slot_hashes, account_lamports>>

FinalizeOf(inputs) ==
    \E in \in inputs :
        LET r == process_finalization_vote(vs, in[1], clock, slot_hashes, in[2])
        IN  /\ last.op = "none"
            /\ CreditsInBound
            /\ vs' = r.vs
            /\ last' = [op |-> "finalize", res |-> r.res, pre |-> vs,
                        authority |-> in[1], vote |-> in[2], award |-> r.award]
            /\ UNCHANGED <<clock, slot_hashes, account_lamports>>

SkipOf(inputs) ==
    \E in \in inputs :
        LET r == process_skip_vote(vs, in[1], clock, slot_hashes, in[2])
        IN  /\ last.op = "none"
            /\ CreditsInBound
            /\ vs' = r.vs
            /\ last' = [op |-> "skip", res |-> r.res, pre |-> vs,
                        authority |-> in[1], vote |-> in[2], award |-> r.award]
            /\ UNCHANGED <<clock, slot_hashes, account_lamports>>

Notarize == NotarizeOf(Signed(NotarizationVotes, FirstNotarizationVotes))
Finalize == FinalizeOf(Signed(FinalizationVotes, FirstFinalizationVotes))
Skip == SkipOf(Signed(SkipVotes, FirstSkipVotes))

\* the first-slot votes only, signed by every vote signer
NotarizeFirst == NotarizeOf(VoteSigners \X FirstNotarizationVotes)
FinalizeFirst == FinalizeOf(VoteSigners \X FirstFinalizationVotes)
SkipFirst == SkipOf(VoteSigners \X FirstSkipVotes)

(***************************************************************************)
(* Spec: the votes on an initialized account while the clock advances.     *)
(***************************************************************************)
Next ==
    \/ Return
    \/ AdvanceClock
    \/ InitializeAccount
    \/ Notarize
    \/ Finalize
    \/ Skip

Spec == Init /\ [][Next]_vars

(***************************************************************************)
(* SpecAuth: voter authorizations, with the first-slot votes.              *)
(***************************************************************************)
NextAuth ==
    \/ Return
    \/ AdvanceClock
    \/ Authorize
    \/ NotarizeFirst
    \/ FinalizeFirst
    \/ SkipFirst

SpecAuth == Init /\ [][NextAuth]_vars

(***************************************************************************)
(* SpecLatency: latency_to_credits on its own, applied to two latencies.   *)
(***************************************************************************)
Latencies == 0..MaxLatency

\* the two latencies latency_to_credits is to be applied to, latency <= later
InitLatency ==
    /\ vs = DefaultVoteState
    /\ clock = ClockAt(0)
    /\ slot_hashes = [s \in Slots |-> <<>>]
    /\ account_lamports = FundedAccount
    /\ \E latency \in Latencies, later \in Latencies :
          /\ latency <= later
          /\ last = [Idle EXCEPT !.op = "latencies",
                                 !.vote = [version |-> 0, latency |-> latency,
                                           later |-> later]]

\* last.award holds the credits of the two latencies
LatencyToCredits ==
    /\ last.op = "latencies"
    /\ last' = [last EXCEPT !.op = "latency_to_credits",
                            !.award = <<latency_to_credits(last.vote.latency),
                                        latency_to_credits(last.vote.later)>>]
    /\ UNCHANGED <<vs, clock, slot_hashes, account_lamports>>

NextLatency == LatencyToCredits

SpecLatency == InitLatency /\ [][NextLatency]_vars

(***************************************************************************)
(* SpecRotate: voter rotations on a vote state of the interface crate      *)
(* while the epochs pass.                                                  *)
(***************************************************************************)
Epochs == 0..MaxEpoch
\* the keys rotated to, and the keys whose signature the caller holds
RotatedVoters == {VoterKey, NodeKey}
RotateSigners == {VoterKey, NodeKey}

\* the vote state right after VoteState::new, in one of the first two epochs
InitRotate ==
    /\ \E epoch \in {0, 1} :
          /\ clock = ClockAt(epoch * SlotsPerEpoch)
          /\ vs = InterfaceVoteStateNew(
                      [node_pubkey |-> NodeKey, authorized_voter |-> VoterKey,
                       authorized_withdrawer |-> WithdrawKey, commission |-> 10],
                      ClockAt(epoch * SlotsPerEpoch), PriorVotersItems)
    /\ slot_hashes = [s \in Slots |-> <<>>]
    /\ last = Idle
    /\ account_lamports = FundedAccount

\* the first slot of a later epoch begins
AdvanceEpoch ==
    \E epoch \in Epochs :
        /\ last.op = "none"
        /\ epoch > clock.epoch
        /\ clock' = ClockAt(epoch * SlotsPerEpoch)
        /\ UNCHANGED <<vs, slot_hashes, last, account_lamports>>

\* a caller rotates the voter: set_new_authorized_voter with the clock's epoch
SetNewAuthorizedVoter ==
    \E authorized_pubkey \in RotatedVoters, target_epoch \in Epochs,
       signer \in RotateSigners :
        LET r == set_new_authorized_voter(vs, authorized_pubkey, clock.epoch,
                                          target_epoch, signer)
        IN  /\ last.op = "none"
            /\ vs' = r.vs
            /\ last' = [op |-> "set_new_authorized_voter", res |-> r.res, pre |-> vs,
                        authority |-> signer,
                        vote |-> [version |-> 0,
                                  authorized_pubkey |-> authorized_pubkey,
                                  current_epoch |-> clock.epoch,
                                  target_epoch |-> target_epoch],
                        award |-> <<>>]
            /\ UNCHANGED <<clock, slot_hashes, account_lamports>>

NextRotate ==
    \/ Return
    \/ AdvanceEpoch
    \/ SetNewAuthorizedVoter

SpecRotate == InitRotate /\ [][NextRotate]_vars

(***************************************************************************)
(* SpecLookup: get_authorized_voter called between voter authorizations    *)
(* while the clock advances.                                               *)
(***************************************************************************)
\* the epochs the voter is looked up for: up to the latest epoch a voter can
\* be scheduled for
LookupEpochs == 0..(GetLeaderScheduleEpoch(MaxSlot) + 1)

\* a caller looks the voter of an epoch up; the call takes &self and leaves
\* the record.  last.award holds the result, last.vote.earlier the epoch and
\* the result of the call right before it, if that was a lookup too
LookupAuthorizedVoter ==
    \E epoch \in LookupEpochs :
        /\ last.op \in {"none", "get_authorized_voter"}
        /\ last.op = "get_authorized_voter" => last.vote.earlier = <<>>
        /\ last' = [op |-> "get_authorized_voter", res |-> "Ok", pre |-> vs,
                    authority |-> DefaultPubkey,
                    vote |-> [version |-> 0, epoch |-> epoch,
                              earlier |-> IF last.op = "get_authorized_voter"
                                          THEN <<[epoch |-> last.vote.epoch,
                                                  voter |-> last.award]>>
                                          ELSE <<>>],
                    award |-> GetAuthorizedVoter(vs, epoch)]
        /\ UNCHANGED <<vs, clock, slot_hashes, account_lamports>>

NextLookup ==
    \/ Return
    \/ AdvanceClock
    \/ Authorize
    \/ LookupAuthorizedVoter

SpecLookup == Init /\ [][NextLookup]_vars

(***************************************************************************)
(* SpecRing: a CircBuf of MAX_ITEMS items on its own, appended to and read.*)
(* vs is the ring, last.vote.appended the items appended so far.           *)
(***************************************************************************)
\* the item appended as the k-th: the voters take turns, last.authority first
RingItem(k) ==
    <<IF k % 2 = 1 THEN last.authority
      ELSE CHOOSE key \in RotatedVoters : key # last.authority,
      k - 1, k>>

InitRing ==
    /\ vs = CircBufDefault(MAX_ITEMS)
    /\ clock = ClockAt(0)
    /\ slot_hashes = [s \in Slots |-> <<>>]
    /\ account_lamports = FundedAccount
    /\ \E first \in RotatedVoters :
          last = [Idle EXCEPT !.authority = first,
                              !.vote = [version |-> 0, appended |-> <<>>]]

\* CircBuf::append of the next item
RingAppend ==
    LET item == RingItem(Len(last.vote.appended) + 1) IN
        /\ Len(last.vote.appended) < MaxAppends
        /\ vs' = CircBufAppend(vs, item)
        /\ last' = [last EXCEPT !.op = "append", !.pre = vs, !.award = <<>>,
                                !.vote.appended = Append(@, item)]
        /\ UNCHANGED <<clock, slot_hashes, account_lamports>>

\* CircBuf::last; last.award holds what it returned
RingLast ==
    /\ last.op # "last"
    /\ last' = [last EXCEPT !.op = "last", !.pre = vs, !.award = CircBufLast(vs)]
    /\ UNCHANGED <<vs, clock, slot_hashes, account_lamports>>

NextRing ==
    \/ RingAppend
    \/ RingLast

SpecRing == InitRing /\ [][NextRing]_vars

(***************************************************************************)
(* SpecSplit: commission_split on its own.                                 *)
(***************************************************************************)
SplitTotals == 0..MaxSplitTotal
SplitCommissions == 0..MaxSplitCommission

\* the commission of the vote state and the amount to split
InitSplit ==
    /\ vs = DefaultVoteState
    /\ clock = ClockAt(0)
    /\ slot_hashes = [s \in Slots |-> <<>>]
    /\ account_lamports = FundedAccount
    /\ \E commission \in SplitCommissions, on \in SplitTotals :
          last = [Idle EXCEPT !.op = "split",
                              !.vote = [version |-> 0, commission |-> commission,
                                        on |-> on]]

\* last.award holds the split
CommissionSplit ==
    /\ last.op = "split"
    /\ last' = [last EXCEPT !.op = "commission_split",
                            !.award = commission_split(last.vote.commission,
                                                       last.vote.on)]
    /\ UNCHANGED <<vs, clock, slot_hashes, account_lamports>>

NextSplit == CommissionSplit

SpecSplit == InitSplit /\ [][NextSplit]_vars

(***************************************************************************)
(* SpecAccount: the life of a vote account from its creation: it is        *)
(* initialized, its authorities, identity and commission are changed, it   *)
(* is voted with and withdrawn from while the clock advances.              *)
(***************************************************************************)
\* lamports the account is created with: below, at and above the minimum
CreatedLamports == (MinRentExemptBalance - 1)..(MinRentExemptBalance + 1)
\* lamports asked for by a withdrawal
WithdrawnLamports == 1..(MinRentExemptBalance + 1)
\* the keys that sign an InitializeAccount as the node
InitSigners == {NodeKey, VoterKey}
\* the keys that sign as the withdrawer
WithdrawSigners == {WithdrawKey, NodeKey}
\* inputs of UpdateValidatorIdentity and UpdateCommission
NewNodeKeys == {VoterKey}
NewCommissions == {20}

\* the EpochSchedule sysvar the epochs of the clock follow
EpochScheduleSysvar ==
    [slots_per_epoch |-> SlotsPerEpoch, first_normal_epoch |-> 0, first_normal_slot |-> 0]

\* the account as the system program created it, in the first slot
InitAccount ==
    /\ vs = DefaultVoteState
    /\ clock = ClockAt(0)
    /\ slot_hashes = [s \in Slots |-> <<>>]
    /\ last = Idle
    /\ \E created \in CreatedLamports :
          account_lamports = [vote_account |-> created, recipient |-> 0]

\* InitializeAccount signed by a key as the node; last.vote holds the data
InitializeAccountSigned ==
    \E node_signer \in InitSigners, node \in InitNodeKeys, voter \in InitVoters,
       withdrawer \in InitWithdrawers, commission \in InitCommissions :
        LET init_data == [node_pubkey |-> node, authorized_voter |-> voter,
                          authorized_withdrawer |-> withdrawer,
                          commission |-> commission]
            r == process_initialize_account(vs, account_lamports.vote_account,
                                            node_signer, init_data, clock)
        IN  /\ last.op = "none"
            /\ vs' = r.vs
            /\ last' = [op |-> "initialize", res |-> r.res, pre |-> vs,
                        authority |-> node_signer,
                        vote |-> [version |-> 0, init_data |-> init_data],
                        award |-> <<>>]
            /\ UNCHANGED <<clock, slot_hashes, account_lamports>>

\* Authorize of a new withdrawer
AuthorizeWithdrawer ==
    \E new_authority \in NewAuthorities, authority \in Pubkeys :
        LET r == authorize(vs, new_authority, "Withdrawer", authority, clock) IN
            /\ last.op = "none"
            /\ vs' = r.vs
            /\ last' = [op |-> "authorize", res |-> r.res, pre |-> vs,
                        authority |-> authority,
                        vote |-> [version |-> 0, new_authority |-> new_authority,
                                  vote_authorize |-> "Withdrawer"],
                        award |-> <<>>]
            /\ UNCHANGED <<clock, slot_hashes, account_lamports>>

UpdateValidatorIdentity ==
    \E new_node_pubkey \in NewNodeKeys, withdraw_pubkey \in WithdrawSigners :
        LET r == update_validator_identity(vs, new_node_pubkey, withdraw_pubkey) IN
            /\ last.op = "none"
            /\ vs' = r.vs
            /\ last' = [op |-> "update_validator_identity", res |-> r.res, pre |-> vs,
                        authority |-> withdraw_pubkey,
                        vote |-> [version |-> 0, new_node_pubkey |-> new_node_pubkey],
                        award |-> <<>>]
            /\ UNCHANGED <<clock, slot_hashes, account_lamports>>

UpdateCommission ==
    \E commission \in NewCommissions, withdraw_pubkey \in WithdrawSigners :
        LET r == update_commission(vs, commission, withdraw_pubkey,
                                   EpochScheduleSysvar, clock)
        IN  /\ last.op = "none"
            /\ vs' = r.vs
            /\ last' = [op |-> "update_commission", res |-> r.res, pre |-> vs,
                        authority |-> withdraw_pubkey,
                        vote |-> [version |-> 0, commission |-> commission,
                                  epoch_schedule |-> EpochScheduleSysvar],
                        award |-> <<>>]
            /\ UNCHANGED <<clock, slot_hashes, account_lamports>>

\* Withdraw; last.vote holds the lamports asked for and the balances before
Withdraw ==
    \E lamports \in WithdrawnLamports, withdraw_pubkey \in WithdrawSigners :
        LET r == withdraw(vs, account_lamports, lamports, withdraw_pubkey, clock) IN
            /\ last.op = "none"
            /\ vs' = r.vs
            /\ account_lamports' = r.lamports
            /\ last' = [op |-> "withdraw", res |-> r.res, pre |-> vs,
                        authority |-> withdraw_pubkey,
                        vote |-> [version |-> 0, lamports |-> lamports,
                                  balances |-> account_lamports],
                        award |-> <<>>]
            /\ UNCHANGED <<clock, slot_hashes>>

NextAccount ==
    \/ Return
    \/ AdvanceClock
    \/ InitializeAccountSigned
    \/ Authorize
    \/ AuthorizeWithdrawer
    \/ UpdateValidatorIdentity
    \/ UpdateCommission
    \/ Withdraw
    \/ NotarizeFirst
    \/ FinalizeFirst
    \/ SkipFirst

SpecAccount == InitAccount /\ [][NextAccount]_vars

(***************************************************************************)
(* SpecCommission: update_commission on a freshly initialized account at   *)
(* a slot of an epoch schedule.                                            *)
(***************************************************************************)
\* EpochSchedule sysvars: without warm-up, and with warm-up epochs of 1, 2,
\* 4, ... slots before the first normal epoch
EpochSchedules ==
    {[slots_per_epoch |-> n, first_normal_epoch |-> 0, first_normal_slot |-> 0] :
        n \in 1..(2 ^ MaxWarmupEpochs)}
    \cup {[slots_per_epoch |-> 2 ^ k, first_normal_epoch |-> k,
           first_normal_slot |-> 2 ^ k - 1] : k \in 1..MaxWarmupEpochs}

\* EpochSchedule::get_epoch
ScheduleGetEpoch(epoch_schedule, slot) ==
    IF slot < epoch_schedule.first_normal_slot
    THEN CHOOSE e \in 0..epoch_schedule.first_normal_epoch :
             2 ^ e - 1 <= slot /\ slot < 2 ^ (e + 1) - 1
    ELSE epoch_schedule.first_normal_epoch
           + (slot - epoch_schedule.first_normal_slot) \div epoch_schedule.slots_per_epoch

\* the commissions asked for: below and above the one of the account
CommissionUpdates == {5, 20}

\* an account initialized at a slot of an epoch after epoch 0 of a schedule;
\* last.vote holds the schedule
InitCommission ==
    /\ slot_hashes = [s \in Slots |-> <<>>]
    /\ account_lamports = FundedAccount
    /\ \E slot \in Slots, epoch_schedule \in EpochSchedules,
          commission \in InitCommissions :
          LET epoch == ScheduleGetEpoch(epoch_schedule, slot) IN
          /\ epoch >= 1
          /\ clock = [slot |-> slot, epoch |-> epoch, leader_schedule_epoch |-> epoch + 1]
          /\ vs = NewVoteState([node_pubkey |-> NodeKey, authorized_voter |-> VoterKey,
                                authorized_withdrawer |-> WithdrawKey,
                                commission |-> commission], clock)
          /\ last = [Idle EXCEPT !.op = "schedule",
                                 !.vote = [version |-> 0,
                                           epoch_schedule |-> epoch_schedule]]

\* UpdateCommission under the schedule
UpdateCommissionUnder ==
    \E commission \in CommissionUpdates, withdraw_pubkey \in WithdrawSigners :
        LET r == update_commission(vs, commission, withdraw_pubkey,
                                   last.vote.epoch_schedule, clock)
        IN  /\ last.op = "schedule"
            /\ vs' = r.vs
            /\ last' = [op |-> "update_commission", res |-> r.res, pre |-> vs,
                        authority |-> withdraw_pubkey,
                        vote |-> [version |-> 0, commission |-> commission,
                                  epoch_schedule |-> last.vote.epoch_schedule],
                        award |-> <<>>]
            /\ UNCHANGED <<clock, slot_hashes, account_lamports>>

NextCommission == UpdateCommissionUnder

SpecCommission == InitCommission /\ [][NextCommission]_vars

(***************************************************************************)
(* SpecCredits: increment_credits on a vote state of the interface crate,  *)
(* called for non-decreasing epochs.  last.vote holds the epoch of the     *)
(* last call, the sum of the credits of all calls and the entry removed    *)
(* last.                                                                   *)
(***************************************************************************)
InitCredits ==
    /\ vs = InterfaceVoteStateDefault(PriorVotersItems)
    /\ clock = ClockAt(0)
    /\ slot_hashes = [s \in Slots |-> <<>>]
    /\ account_lamports = FundedAccount
    /\ last = [Idle EXCEPT !.vote = [version |-> 0, epoch |-> 0, credits |-> 0,
                                     total |-> 0, dropped |-> <<>>]]

\* a caller credits the epoch of the last call or the next one.  Up to epoch
\* MaxEpoch a call has 0 or 1 credits and an epoch gets two credits on
\* average; after it every epoch is credited once
IncrementCredits ==
    \E epoch \in {last.vote.epoch, last.vote.epoch + 1}, credits \in {0, 1} :
        LET after == increment_credits(vs, epoch, credits)
            removed == /\ vs.epoch_credits # <<>>
                       /\ after.epoch_credits # <<>>
                       /\ after.epoch_credits[1] # vs.epoch_credits[1]
                       /\ Len(after.epoch_credits) = Len(vs.epoch_credits)
                       /\ Len(vs.epoch_credits) > 1
        IN  /\ epoch <= MaxCreditEpochs
            /\ last.vote.total + credits <= 2 * (epoch + 1)
            /\ epoch > MaxEpoch => (epoch = last.vote.epoch + 1 /\ credits = 1)
            /\ vs' = after
            /\ last' = [last EXCEPT !.op = "increment_credits", !.pre = vs,
                                    !.vote = [version |-> 0, epoch |-> epoch,
                                              credits |-> credits,
                                              total |-> last.vote.total + credits,
                                              dropped |-> IF removed
                                                          THEN <<vs.epoch_credits[1]>>
                                                          ELSE last.vote.dropped]]
            /\ UNCHANGED <<clock, slot_hashes, account_lamports>>

NextCredits == IncrementCredits

SpecCredits == InitCredits /\ [][NextCredits]_vars

(***************************************************************************)
(* SpecTimestamp: process_timestamp on a vote state of the interface       *)
(* crate, with every slot and with timestamps of both signs.               *)
(***************************************************************************)
UnixTimestamps == (0 - 1)..(MaxTs + 1)

InitTimestamp ==
    /\ vs = InterfaceVoteStateDefault(PriorVotersItems)
    /\ clock = ClockAt(0)
    /\ slot_hashes = [s \in Slots |-> <<>>]
    /\ account_lamports = FundedAccount
    /\ last = Idle

ProcessTimestamp ==
    \E slot \in Slots, timestamp \in UnixTimestamps :
        LET r == process_timestamp(vs, slot, timestamp)
        IN  /\ vs' = r.vs
            /\ last' = [last EXCEPT !.op = "process_timestamp", !.res = r.res,
                                    !.pre = vs,
                                    !.vote = [version |-> 0, slot |-> slot,
                                              timestamp |-> timestamp]]
            /\ UNCHANGED <<clock, slot_hashes, account_lamports>>

NextTimestamp == ProcessTimestamp

SpecTimestamp == InitTimestamp /\ [][NextTimestamp]_vars

(***************************************************************************)
(* SpecSkipCredits: process_skip_credits called once, as its tests call    *)
(* it, on a record with a recorded skip range, under every clock and       *)
(* every ledger of the slots before the clock's.                           *)
(***************************************************************************)
InitSkipCredits ==
    /\ \E slot \in Slots, skip_end \in Slots, epoch \in 0..MaxEpoch :
          /\ skip_end <= slot
          /\ epoch <= GetEpoch(slot)
          /\ clock = ClockAt(slot)
          /\ vs = [NewVoteState([node_pubkey |-> NodeKey, authorized_voter |-> VoterKey,
                                 authorized_withdrawer |-> WithdrawKey,
                                 commission |-> 10], ClockAt(slot))
                     EXCEPT !.latest_skip_start_slot = skip_end,
                            !.latest_skip_end_slot = skip_end,
                            !.epoch_credits.epoch = epoch]
    /\ slot_hashes \in [Slots -> {<<>>} \cup {<<h>> : h \in LedgerHashes}]
    /\ \A s \in Slots : s >= clock.slot => slot_hashes[s] = <<>>
    /\ account_lamports = FundedAccount
    /\ last = Idle

ProcessSkipCredits ==
    \E vote_start_slot \in Slots, vote_end_slot \in Slots :
        LET r == process_skip_credits(vs, vote_start_slot, vote_end_slot, clock,
                                      slot_hashes)
        IN  /\ last.op = "none"
            /\ vs' = r.vs
            /\ last' = [last EXCEPT !.op = "process_skip_credits", !.res = r.res,
                                    !.pre = vs,
                                    !.vote = [version |-> CURRENT_SKIP_VOTE_VERSION,
                                              start_slot |-> vote_start_slot,
                                              end_slot |-> vote_end_slot],
                                    !.award = r.award]
            /\ UNCHANGED <<clock, slot_hashes, account_lamports>>

NextSkipCredits == ProcessSkipCredits

SpecSkipCredits == InitSkipCredits /\ [][NextSkipCredits]_vars

(***************************************************************************)
(* SpecSkipSequence: Skip votes by the voter, one after the other, on one  *)
(* record under a clock, a ledger and an epoch schedule that do not        *)
(* change.  last.vote holds the schedule and the slots of the ranges of    *)
(* the successful votes.                                                   *)
(***************************************************************************)
\* award_credits under the epoch schedule handed to it
award_credits_scheduled(epoch_schedule, epoch_credits, latest_vote_slot, earned_credits) ==
    LET vote_epoch == ScheduleGetEpoch(epoch_schedule, latest_vote_slot) IN
    IF vote_epoch = epoch_credits.epoch
    THEN [res |-> "Ok",
          epoch_credits |->
              [epoch_credits EXCEPT !.credits = SaturatingAdd(@, earned_credits)]]
    ELSE IF vote_epoch < epoch_credits.epoch
    THEN [res |-> "Unreachable", epoch_credits |-> epoch_credits]
    ELSE [res |-> "Ok",
          epoch_credits |->
              [epoch |-> vote_epoch,
               prev_credits |->
                   SaturatingAdd(epoch_credits.prev_credits, epoch_credits.credits),
               credits |-> earned_credits]]

\* process_skip_credits under the epoch schedule handed to it
process_skip_credits_scheduled(epoch_schedule, s, vote_start_slot, vote_end_slot, clk, sh) ==
    IF SkipEndExceedsClock(clk, vote_end_slot)
    THEN [res |-> "SkipEndSlotExceedsCurrentSlot", vs |-> s, award |-> <<>>]
    ELSE LET acc == SkipCreditsLoop(EligibleSkipStart(s, vote_start_slot),
                        vote_end_slot, clk, sh,
                        [earned_credits |-> 0, latest_vote_slot |-> 0])
             r == award_credits_scheduled(epoch_schedule, s.epoch_credits,
                                          acc.latest_vote_slot, acc.earned_credits)
         IN  [res |-> r.res,
              vs |-> [s EXCEPT !.epoch_credits = r.epoch_credits],
              award |-> <<acc>>]

\* process_skip_vote under the epoch schedule handed to it
process_skip_vote_scheduled(epoch_schedule, s, vote_authority, clk, sh, vote) ==
    IF vote.version # CURRENT_SKIP_VOTE_VERSION
    THEN [res |-> "VersionMismatch", vs |-> s, award |-> <<>>]
    ELSE IF VoterMismatch(s, vote_authority)
    THEN [res |-> "MissingRequiredSignature", vs |-> s, award |-> <<>>]
    ELSE IF vote.end_slot < vote.start_slot
    THEN [res |-> "SkipEndSlotLowerThanSkipStartSlot", vs |-> s, award |-> <<>>]
    ELSE IF VoteRangeContainsFinalized(s, vote.start_slot, vote.end_slot)
    THEN [res |-> "SkipSlotRangeContainsFinalizationVote", vs |-> s, award |-> <<>>]
    ELSE LET r == process_skip_credits_scheduled(epoch_schedule, s, vote.start_slot,
                                                 vote.end_slot, clk, sh) IN
    IF r.res # "Ok" THEN r
    ELSE [res |-> "Ok",
          vs |-> [r.vs EXCEPT !.latest_skip_start_slot = vote.start_slot,
                              !.latest_skip_end_slot = vote.end_slot],
          award |-> r.award]

\* the ledger holds no slot, or one slot before the clock's
InitSkipSequence ==
    /\ \E slot \in Slots, epoch_schedule \in EpochSchedules :
          LET epoch == ScheduleGetEpoch(epoch_schedule, slot) IN
          /\ clock = [slot |-> slot, epoch |-> epoch, leader_schedule_epoch |-> epoch + 1]
          /\ vs = NewVoteState([node_pubkey |-> NodeKey, authorized_voter |-> VoterKey,
                                authorized_withdrawer |-> WithdrawKey,
                                commission |-> 10], clock)
          /\ last = [Idle EXCEPT !.vote = [version |-> 0, start_slot |-> 0, end_slot |-> 0,
                                           epoch_schedule |-> epoch_schedule,
                                           covered |-> {}]]
    /\ \E on_ledger \in {{}} \cup {{s} : s \in 0..(clock.slot - 1)} :
          slot_hashes = [s \in Slots |-> IF s \in on_ledger THEN <<"h1">> ELSE <<>>]
    /\ account_lamports = FundedAccount

\* the votes are for ranges of the first slots
SkipInSequence ==
    \E start_slot \in 0..(SlotsPerEpoch + 1), end_slot \in 0..(SlotsPerEpoch + 1) :
        LET vote == [version |-> CURRENT_SKIP_VOTE_VERSION, start_slot |-> start_slot,
                     end_slot |-> end_slot]
            r == process_skip_vote_scheduled(last.vote.epoch_schedule, vs, VoterKey,
                                             clock, slot_hashes, vote)
        IN  /\ start_slot <= end_slot
            /\ CreditsInBound
            /\ vs' = r.vs
            /\ last' = [op |-> "skip", res |-> r.res, pre |-> vs, authority |-> VoterKey,
                        vote |-> [version |-> CURRENT_SKIP_VOTE_VERSION,
                                  start_slot |-> start_slot, end_slot |-> end_slot,
                                  epoch_schedule |-> last.vote.epoch_schedule,
                                  covered |-> IF r.res = "Ok"
                                              THEN last.vote.covered \cup (start_slot..end_slot)
                                              ELSE last.vote.covered],
                        award |-> r.award]
            /\ UNCHANGED <<clock, slot_hashes, account_lamports>>

NextSkipSequence == SkipInSequence

SpecSkipSequence == InitSkipSequence /\ [][NextSkipSequence]_vars

(***************************************************************************)
(* SpecPending: Authorize(Voter) for every new key and every signer, as    *)
(* the clock advances.                                                     *)
(***************************************************************************)
AuthorizeVoter ==
    \E new_authority \in Pubkeys, authority \in Pubkeys :
        LET r == authorize(vs, new_authority, "Voter", authority, clock) IN
            /\ last.op = "none"
            /\ vs' = r.vs
            /\ last' = [op |-> "authorize", res |-> r.res, pre |-> vs,
                        authority |-> authority,
                        vote |-> [version |-> 0, new_authority |-> new_authority,
                                  vote_authorize |-> "Voter"],
                        award |-> <<>>]
            /\ UNCHANGED <<clock, slot_hashes, account_lamports>>

NextPending ==
    \/ Return
    \/ AdvanceClock
    \/ AuthorizeVoter

SpecPending == Init /\ [][NextPending]_vars

TypeOK ==
    /\ clock.slot \in Slots
    /\ vs.version \in {0, VOTE_STATE_VERSION}
    /\ last.op \in {"none", "initialize", "authorize", "notarize", "finalize", "skip"}

(***************************************************************************)
(* Properties.  `last` holds the instruction that just returned: its kind, *)
(* signer, vote, result and the record before it; vs is the record after.  *)
(***************************************************************************)
LastIsVote == last.op \in {"notarize", "finalize", "skip"}

\* the vote passed the version and the signer check of its handler
LastPassedSigner ==
    /\ last.vote.version = 1
    /\ last.authority = last.pre.authorized_voter.voter

\* C1: a Notarize, Finalize or Skip vote that returns an error leaves every
\* field of VoteState as it was before the call.
C1_FailedVoteLeavesStateUnchanged ==
    (LastIsVote /\ last.res # "Ok") => vs = last.pre

\* C2: a Notarize vote with slot <= latest_notarized.slot is rejected (with
\* VoteTooOld once the version and signer checks passed, the record unchanged);
\* a successful Notarize sets latest_notarized to the vote's slot, block id and
\* bank hash, and its slot is strictly greater than the previous one.
C2_NotarizeStrictlyIncreasing ==
    last.op = "notarize" =>
        /\ last.vote.slot <= last.pre.latest_notarized_slot =>
              /\ last.res # "Ok"
              /\ LastPassedSigner => (last.res = "VoteTooOld" /\ vs = last.pre)
        /\ last.res = "Ok" =>
              /\ last.vote.slot > last.pre.latest_notarized_slot
              /\ vs.latest_notarized_slot = last.vote.slot
              /\ vs.latest_notarized_block_id = last.vote.block_id
              /\ vs.latest_notarized_bank_hash = last.vote.replayed_bank_hash

\* Notarize(FirstSlot + 1) succeeded, then Notarize(FirstSlot) is too old
C2_Witness ==
    /\ last.op = "notarize"
    /\ last.res = "VoteTooOld"
    /\ last.pre.latest_notarized_slot = FirstSlot + 1
    /\ last.vote.slot = FirstSlot
    /\ vs = last.pre

\* C3: a Finalize vote with slot <= latest_finalized.slot is rejected (with
\* VoteTooOld once the version and signer checks passed); a successful Finalize
\* sets latest_finalized to the vote's slot, block id and bank hash with a
\* strictly greater slot; no instruction of any kind lowers latest_finalized.slot.
C3_FinalizeStrictlyIncreasing ==
    /\ last.op = "finalize" =>
        /\ last.vote.slot <= last.pre.latest_finalized_slot =>
              /\ last.res # "Ok"
              /\ LastPassedSigner => (last.res = "VoteTooOld" /\ vs = last.pre)
        /\ last.res = "Ok" =>
              /\ last.vote.slot > last.pre.latest_finalized_slot
              /\ vs.latest_finalized_slot = last.vote.slot
              /\ vs.latest_finalized_block_id = last.vote.block_id
              /\ vs.latest_finalized_bank_hash = last.vote.replayed_bank_hash
    /\ last.op # "none" => vs.latest_finalized_slot >= last.pre.latest_finalized_slot

\* a second Finalize succeeded, for a later slot than the first
C3_Witness ==
    /\ last.op = "finalize"
    /\ last.res = "Ok"
    /\ last.pre.latest_finalized_slot = FirstSlot
    /\ vs.latest_finalized_slot = FirstSlot + 1

\* C4: a recorded latest_finalized.slot (not 0) never lies inside
\* [latest_skip_start_slot, latest_skip_end_slot].
C4_FinalizedNotInSkipRange ==
    vs.latest_finalized_slot # 0 =>
        ~(vs.latest_skip_start_slot <= vs.latest_finalized_slot
            /\ vs.latest_finalized_slot <= vs.latest_skip_end_slot)

\* a slot is finalized, a skip range is recorded, and a Finalize inside the
\* range was just rejected
C4_Witness ==
    /\ last.op = "finalize"
    /\ last.res = "SkipSlotRangeContainsFinalizationVote"
    /\ vs.latest_finalized_slot # 0
    /\ vs.latest_skip_end_slot # 0

\* C5: a successful Skip vote never lowers latest_skip_end_slot.
C5_SkipEndNeverLowered ==
    (last.op = "skip" /\ last.res = "Ok") =>
        vs.latest_skip_end_slot >= last.pre.latest_skip_end_slot

\* C6: once the clock's epoch has reached the activation epoch of the pending
\* voter, a vote signed by the pending voter passes the signer check and a vote
\* signed by the superseded current voter fails with MissingRequiredSignature.
C6_PendingVoterPromoted ==
    (/\ LastIsVote
     /\ last.vote.version = 1
     /\ last.pre.next_authorized_voter # <<>>
     /\ clock.epoch >= last.pre.next_authorized_voter[1].epoch)
    => LET pending == last.pre.next_authorized_voter[1].voter
           superseded == last.pre.authorized_voter.voter
       IN  /\ last.authority = pending => last.res # "MissingRequiredSignature"
           /\ (last.authority = superseded /\ superseded # pending)
                 => last.res = "MissingRequiredSignature"

\* C7: a successful Notarize or Finalize for slot s processed at slot c in
\* epoch e records latency_to_credits(c - s) credits (between 1 and 16) in the
\* credit ledger under the epoch e.
C7_BlockVoteCredits ==
    (last.op \in {"notarize", "finalize"} /\ last.res = "Ok") =>
        LET amount == latency_to_credits(clock.slot - last.vote.slot)
            ec == last.pre.epoch_credits
        IN  /\ amount >= 1
            /\ amount <= VOTE_CREDITS_MAXIMUM_PER_SLOT
            /\ vs.epoch_credits =
                  IF clock.epoch = ec.epoch
                  THEN [ec EXCEPT !.credits = @ + amount]
                  ELSE [epoch |-> clock.epoch,
                        prev_credits |-> ec.prev_credits + ec.credits,
                        credits |-> amount]

\* the slots a Skip vote is to be credited for: those of its range after the
\* previously recorded skip end, without a ledger entry, before the current slot
CreditableSkipSlots ==
    {s \in Max(last.vote.start_slot, last.pre.latest_skip_end_slot + 1)
             .. last.vote.end_slot :
        SlotHashesGet(slot_hashes, s) = <<>> /\ s < clock.slot}

RECURSIVE SumOfSkipCredits(_)
SumOfSkipCredits(slots) ==
    IF slots = {} THEN 0
    ELSE LET s == CHOOSE x \in slots : TRUE
         IN  latency_to_credits(clock.slot - s) + SumOfSkipCredits(slots \ {s})

LatestOf(slots) == CHOOSE s \in slots : \A t \in slots : t <= s

C9_UnreachableNeverReturned == last.res # "Unreachable"

\* C10: award_credits for the epoch of the voted slot: if it is the tracked
\* epoch, credits grows by the amount and epoch and prev_credits stay; if it is
\* greater, prev_credits becomes prev_credits + credits, the tracked epoch the
\* new epoch, and credits the amount.
C10_AwardCredits ==
    (LastIsVote /\ last.res = "Ok" /\ last.award # <<>>) =>
        LET epoch == GetEpoch(last.award[1].latest_vote_slot)
            amount == last.award[1].earned_credits
            ec == last.pre.epoch_credits
        IN  /\ epoch = ec.epoch =>
                  /\ vs.epoch_credits.credits = ec.credits + amount
                  /\ vs.epoch_credits.epoch = ec.epoch
                  /\ vs.epoch_credits.prev_credits = ec.prev_credits
            /\ epoch > ec.epoch =>
                  /\ vs.epoch_credits.prev_credits = ec.prev_credits + ec.credits
                  /\ vs.epoch_credits.epoch = epoch
                  /\ vs.epoch_credits.credits = amount

\* credits of an earlier epoch were rolled into prev_credits by a vote for a
\* slot of a later epoch
C10_Witness ==
    /\ LastIsVote
    /\ last.res = "Ok"
    /\ last.award # <<>>
    /\ last.pre.epoch_credits.credits > 0
    /\ last.pre.epoch_credits.prev_credits > 0
    /\ GetEpoch(last.award[1].latest_vote_slot) > last.pre.epoch_credits.epoch
    /\ last.award[1].earned_credits > 0

\* C11: latency_to_credits returns C_max = 16 for every latency <= G = 2,
\* C_max - (latency - G) for G < latency <= G + C_max - 1, and 1 for every
\* larger latency; it is non-increasing in the latency and within [1, C_max].
C11_LatencyToCredits ==
    last.op = "latency_to_credits" =>
        LET G == VOTE_CREDITS_GRACE_SLOTS
            C_max == VOTE_CREDITS_MAXIMUM_PER_SLOT
            latency == last.vote.latency
            credits == last.award[1]
        IN  /\ G = 2 /\ C_max = 16
            /\ latency <= G => credits = C_max
            /\ (G < latency /\ latency <= G + C_max - 1)
                  => credits = C_max - (latency - G)
            /\ latency > G + C_max - 1 => credits = 1
            /\ 1 <= credits /\ credits <= C_max
            /\ last.award[2] <= credits

\* the function was applied to a latency on the ramp and to one beyond it
C11_Witness ==
    /\ last.op = "latency_to_credits"
    /\ last.vote.latency = VOTE_CREDITS_GRACE_SLOTS + 1
    /\ last.award[1] = VOTE_CREDITS_MAXIMUM_PER_SLOT - 1
    /\ last.vote.later > VOTE_CREDITS_GRACE_SLOTS + VOTE_CREDITS_MAXIMUM_PER_SLOT - 1
    /\ last.award[2] = 1

\* the block vote passed the checks its handler makes before the replay check
LastReachedReplay ==
    /\ LastPassedSigner
    /\ last.res # "VoteTooOld"
    /\ last.op = "finalize" => last.res # "SkipSlotRangeContainsFinalizationVote"

LastReachedTimestamp ==
    /\ last.op = "notarize"
    /\ last.res \notin {"VersionMismatch", "MissingRequiredSignature", "VoteTooOld",
                        "SlotHashesMissingKey", "ReplayBankHashMismatch"}

\* C13: a Notarize carrying timestamp t fails with TimestampTooOld unless t is
\* strictly greater than latest_timestamp's time, or equal to it while
\* latest_timestamp.slot is unset (0); a successful one sets latest_timestamp to
\* (vote slot, t); a Notarize without a timestamp leaves latest_timestamp.
C13_TimestampRule ==
    LastReachedTimestamp =>
        LET latest == last.pre.latest_timestamp IN
        IF last.vote.timestamp = <<>>
        THEN vs.latest_timestamp = latest
        ELSE LET t == last.vote.timestamp[1]
                 accepted == t > latest.timestamp
                                \/ (t = latest.timestamp /\ latest.slot = 0)
             IN  /\ ~accepted => last.res = "TimestampTooOld"
                 /\ accepted => last.res # "TimestampTooOld"
                 /\ last.res = "Ok" =>
                       vs.latest_timestamp = [slot |-> last.vote.slot, timestamp |-> t]

\* C14 as stated: a Skip vote whose end_slot is the current slot or a later
\* one fails with SkipEndSlotExceedsCurrentSlot.
C14_SkipEndAtOrAfterClockRejected ==
    (last.op = "skip" /\ last.vote.end_slot >= clock.slot) =>
        /\ last.res # "Ok"
        /\ (LastPassedSigner /\ last.res # "SkipSlotRangeContainsFinalizationVote"
              /\ last.vote.end_slot >= last.vote.start_slot)
              => last.res = "SkipEndSlotExceedsCurrentSlot"

\* C14 amended: a Skip vote whose end_slot is later than the current slot fails
\* (with SkipEndSlotExceedsCurrentSlot once the earlier checks passed, the
\* record unchanged); a Skip vote is never rejected with that error when its
\* end_slot is the current slot or an earlier one.
C14_SkipEndAfterClockRejected ==
    last.op = "skip" =>
        /\ last.vote.end_slot > clock.slot =>
              /\ last.res # "Ok"
              /\ (LastPassedSigner
                    /\ last.res # "SkipSlotRangeContainsFinalizationVote"
                    /\ last.vote.end_slot >= last.vote.start_slot)
                    => (last.res = "SkipEndSlotExceedsCurrentSlot" /\ vs = last.pre)
        /\ last.vote.end_slot <= clock.slot
              => last.res # "SkipEndSlotExceedsCurrentSlot"

\* a Skip ending after the current slot was rejected on a record that holds a
\* skip range ending at the slot the clock had when it was recorded
C14_Witness ==
    /\ last.op = "skip"
    /\ last.res = "SkipEndSlotExceedsCurrentSlot"
    /\ last.vote.end_slot = clock.slot + 1
    /\ vs.latest_skip_end_slot = clock.slot

\* C15: a Finalize vote for a slot inside the recorded skip range fails with
\* SkipSlotRangeContainsFinalizationVote, and so does a Skip vote whose range
\* holds the recorded finalized slot (each once the checks its handler makes
\* before passed); neither changes the record.
C15_SkipOverlapErrors ==
    /\ (/\ last.op = "finalize"
         /\ last.pre.latest_skip_start_slot <= last.vote.slot
         /\ last.vote.slot <= last.pre.latest_skip_end_slot)
        => /\ last.res # "Ok"
           /\ (LastPassedSigner /\ last.res # "VoteTooOld")
                 => (last.res = "SkipSlotRangeContainsFinalizationVote"
                        /\ vs = last.pre)
    /\ (/\ last.op = "skip"
         /\ last.vote.start_slot <= last.pre.latest_finalized_slot
         /\ last.pre.latest_finalized_slot <= last.vote.end_slot)
        => /\ last.res # "Ok"
           /\ LastPassedSigner
                 => (last.res = "SkipSlotRangeContainsFinalizationVote"
                        /\ vs = last.pre)

\* a Skip whose range starts at the finalized slot was rejected
C15_Witness ==
    /\ last.op = "skip"
    /\ last.res = "SkipSlotRangeContainsFinalizationVote"
    /\ last.pre.latest_finalized_slot > 0
    /\ last.vote.start_slot = last.pre.latest_finalized_slot
    /\ last.vote.end_slot > last.vote.start_slot

\* C16: with no pending voter, a vote signed by a key other than the
\* authorized voter (the node identity and the withdraw authority included)
\* fails with MissingRequiredSignature and changes nothing; a vote signed by
\* the authorized voter is not rejected with MissingRequiredSignature.
C16_SignerCheck ==
    (LastIsVote /\ last.vote.version = 1 /\ last.pre.next_authorized_voter = <<>>) =>
        /\ last.authority # last.pre.authorized_voter.voter
              => (last.res = "MissingRequiredSignature" /\ vs = last.pre)
        /\ last.authority = last.pre.authorized_voter.voter
              => last.res # "MissingRequiredSignature"

\* a vote signed by the withdraw authority was rejected after votes had changed
\* the record
C16_Witness ==
    /\ LastIsVote
    /\ last.authority = last.pre.authorized_withdrawer
    /\ last.authority # last.pre.authorized_voter.voter
    /\ last.res = "MissingRequiredSignature"
    /\ last.pre.latest_notarized_slot > 0
    /\ vs = last.pre

\* the last instruction was a voter rotation
LastIsRotation == last.op = "set_new_authorized_voter"

\* the caller of the rotation held the signature of the voter of the current
\* epoch: the verify callback accepted
LastVerifyPassed ==
    AuthorizedVotersGet(last.pre.authorized_voters, last.vote.current_epoch)
        = <<last.authority>>

\* C17 as stated: a rotation fails with TooSoonToReauthorize whenever a pending
\* voter (same key or not) is scheduled for an epoch at or before target_epoch.
C17_TooSoonWhenPendingAtOrBefore ==
    (/\ LastIsRotation
     /\ LastVerifyPassed
     /\ \E e \in DOMAIN last.pre.authorized_voters :
           e > last.vote.current_epoch /\ e <= last.vote.target_epoch)
    => last.res = "TooSoonToReauthorize"

\* C17 amended: a rotation whose verify callback accepted fails with
\* TooSoonToReauthorize exactly when target_epoch is the current epoch or a
\* later epoch a voter (same key or not) is already scheduled for; a voter
\* scheduled for an earlier epoch does not make it fail.
C17_TooSoonWhenTargetScheduled ==
    (LastIsRotation /\ LastVerifyPassed) =>
        LET current_epoch == last.vote.current_epoch
            target_epoch == last.vote.target_epoch
            scheduled == \/ target_epoch = current_epoch
                         \/ /\ target_epoch > current_epoch
                            /\ target_epoch \in DOMAIN last.pre.authorized_voters
        IN  scheduled <=> last.res = "TooSoonToReauthorize"

\* a rotation to another key than the one scheduled for the target epoch was
\* rejected, and one for a later epoch than a pending voter's went through
C17_Witness ==
    /\ LastIsRotation
    /\ last.res = "TooSoonToReauthorize"
    /\ last.vote.target_epoch > last.vote.current_epoch + 1
    /\ last.vote.target_epoch \in DOMAIN last.pre.authorized_voters
    /\ last.pre.authorized_voters[last.vote.target_epoch] # last.vote.authorized_pubkey
    /\ last.vote.current_epoch + 1 \in DOMAIN last.pre.authorized_voters

\* C18: a rotation with target_epoch = current_epoch never succeeds; it fails
\* with TooSoonToReauthorize (once the verify callback accepted), also when no
\* rotation was ever requested, and the voter looked up for that epoch is the
\* same after the call as before it.
C18_VoterLockedWithinEpoch ==
    (LastIsRotation /\ last.vote.target_epoch = last.vote.current_epoch) =>
        /\ last.res # "Ok"
        /\ LastVerifyPassed => last.res = "TooSoonToReauthorize"
        /\ AuthorizedVotersGet(vs.authorized_voters, last.vote.current_epoch)
              = AuthorizedVotersGet(last.pre.authorized_voters, last.vote.current_epoch)

\* the rotation was rejected on a vote state no rotation was requested on, in a
\* later epoch than the one the state was created in
C18_Witness ==
    /\ LastIsRotation
    /\ last.vote.target_epoch = last.vote.current_epoch
    /\ last.res = "TooSoonToReauthorize"
    /\ last.pre.prior_voters.is_empty
    /\ Cardinality(DOMAIN last.pre.authorized_voters) = 1
    /\ last.vote.current_epoch \notin DOMAIN last.pre.authorized_voters

\* the voter of the latest entry of the authorized voters before the rotation
LatestScheduledVoter ==
    last.pre.authorized_voters[MaxOf(DOMAIN last.pre.authorized_voters)]

\* C19: a successful rotation to a key other than the latest scheduled voter
\* writes exactly one item of the prior-voters ring, the next one:
\* (prior voter, E, target_epoch), E the upper epoch of the item written last
\* or 0 if none was; a successful rotation to the same key leaves the ring.
C19_ExactlyOnceHistory ==
    (LastIsRotation /\ last.res = "Ok") =>
        LET before == last.pre.prior_voters
            after == vs.prior_voters
            n == Len(before.buf)
            E == IF before.is_empty THEN 0 ELSE before.buf[before.idx + 1][3]
        IN  IF last.vote.authorized_pubkey # LatestScheduledVoter
            THEN /\ after.idx = (before.idx + 1) % n
                 /\ ~after.is_empty
                 /\ after.buf[after.idx + 1]
                       = <<LatestScheduledVoter, E, last.vote.target_epoch>>
                 /\ \A i \in 1..n : i # after.idx + 1 => after.buf[i] = before.buf[i]
            ELSE after = before

\* a second item was written after the voter had been rotated to the same key
\* in between
C19_Witness ==
    /\ LastIsRotation
    /\ last.res = "Ok"
    /\ ~last.pre.prior_voters.is_empty
    /\ vs.prior_voters.idx = last.pre.prior_voters.idx + 1
    /\ Cardinality(DOMAIN last.pre.authorized_voters) >= 3
    /\ \E e \in DOMAIN last.pre.authorized_voters :
          /\ e < MaxOf(DOMAIN last.pre.authorized_voters)
          /\ last.pre.authorized_voters[e] = LatestScheduledVoter
          /\ e = last.pre.prior_voters.buf[last.pre.prior_voters.idx + 1][3]

\* the items of the ring from the oldest to the newest; an item never written
\* holds the default pubkey
PriorVoterRanges ==
    LET cb == vs.prior_voters
        n == Len(cb.buf)
        in_order == [k \in 1..n |-> cb.buf[((cb.idx + k) % n) + 1]]
    IN  SelectSeq(in_order, LAMBDA item : item[1] # DefaultPubkey)

\* C20: after any rotations with non-decreasing current epochs, the items of
\* the prior-voters ring from the oldest to the newest have a lower epoch below
\* their upper epoch, and each lower epoch is at or after the upper epoch of
\* the item before.
C20_HistoryRangesIncreasing ==
    LET ranges == PriorVoterRanges IN
    /\ \A i \in 1..Len(ranges) : ranges[i][2] < ranges[i][3]
    /\ \A i \in 2..Len(ranges) : ranges[i][2] >= ranges[i - 1][3]

\* the ring has wrapped around: every item was written and the newest is not
\* the last of the buffer
C20_Witness ==
    /\ LastIsRotation
    /\ last.res = "Ok"
    /\ Len(PriorVoterRanges) = Len(vs.prior_voters.buf)
    /\ vs.prior_voters.idx < Len(vs.prior_voters.buf) - 1
    /\ PriorVoterRanges[1][2] > 0

\* the rotation's target epoch is taken: it is the current epoch, or a later
\* epoch a voter is entered for
LastTargetTaken ==
    \/ last.vote.target_epoch = last.vote.current_epoch
    \/ /\ last.vote.target_epoch > last.vote.current_epoch
       /\ last.vote.target_epoch \in DOMAIN last.pre.authorized_voters

\* C21: a rotation to a key other than the latest scheduled voter, for a
\* target epoch that is not after the latest scheduled epoch, never succeeds;
\* once the verify callback accepted and the target epoch is not taken it
\* fails with InvalidAccountData; the prior-voters ring is as before and no
\* voter is scheduled: every entry of the authorized voters was there before
\* or is the current epoch's entry of the voter looked up for it.
C21_NonMonotonicRotationRejected ==
    (/\ LastIsRotation
     /\ last.vote.authorized_pubkey # LatestScheduledVoter
     /\ last.vote.target_epoch <= MaxOf(DOMAIN last.pre.authorized_voters))
    => /\ last.res # "Ok"
       /\ (LastVerifyPassed /\ ~LastTargetTaken) => last.res = "InvalidAccountData"
       /\ vs.prior_voters = last.pre.prior_voters
       /\ \A e \in DOMAIN vs.authorized_voters :
             \/ /\ e \in DOMAIN last.pre.authorized_voters
                /\ vs.authorized_voters[e] = last.pre.authorized_voters[e]
             \/ /\ e = last.vote.current_epoch
                /\ <<vs.authorized_voters[e]>>
                      = AuthorizedVotersGet(last.pre.authorized_voters, e)

\* a rotation to another key for an epoch between the current one and the
\* latest scheduled one was rejected with InvalidAccountData
C21_Witness ==
    /\ LastIsRotation
    /\ last.res = "InvalidAccountData"
    /\ last.vote.authorized_pubkey # LatestScheduledVoter
    /\ last.vote.target_epoch > last.vote.current_epoch
    /\ last.vote.target_epoch < MaxOf(DOMAIN last.pre.authorized_voters)
    /\ last.vote.target_epoch \notin DOMAIN vs.authorized_voters
    /\ ~last.pre.prior_voters.is_empty

\* C22: a rotation that fails, for whatever reason, leaves the authorized
\* voters and the prior-voters ring as they were before the call.
C22_FailedRotationLeavesState ==
    (LastIsRotation /\ last.res # "Ok") =>
        /\ vs.authorized_voters = last.pre.authorized_voters
        /\ vs.prior_voters = last.pre.prior_voters

\* the last instruction was an authorize
LastIsAuthorize == last.op = "authorize"

\* C23: whenever a next authorized voter is set, its epoch is after the epoch
\* of the authorized voter.
C23_PendingAfterCurrent ==
    vs.next_authorized_voter # <<>> =>
        vs.next_authorized_voter[1].epoch > vs.authorized_voter.epoch

\* an authorize in a later epoch replaced the next authorized voter set by an
\* earlier authorize
C23_Witness ==
    /\ LastIsAuthorize
    /\ last.res = "Ok"
    /\ last.pre.next_authorized_voter # <<>>
    /\ vs.next_authorized_voter # <<>>
    /\ vs.next_authorized_voter[1].epoch > last.pre.next_authorized_voter[1].epoch

\* the last call was a lookup of the authorized voter
LastIsLookup == last.op = "get_authorized_voter"

\* C24: get_authorized_voter(epoch) returns the next authorized voter if one
\* is set and the epoch is at or after its epoch, otherwise the authorized
\* voter if the epoch is at or after its epoch, otherwise none; the record is
\* as before the call, and a second call for the same epoch right after the
\* first returns what the first returned.
C24_LookupResult ==
    LastIsLookup =>
        /\ vs = last.pre
        /\ IF /\ last.pre.next_authorized_voter # <<>>
              /\ last.vote.epoch >= last.pre.next_authorized_voter[1].epoch
           THEN last.award = <<last.pre.next_authorized_voter[1].voter>>
           ELSE IF last.vote.epoch >= last.pre.authorized_voter.epoch
           THEN last.award = <<last.pre.authorized_voter.voter>>
           ELSE last.award = <<>>
        /\ \A earlier \in {last.vote.earlier[i] : i \in DOMAIN last.vote.earlier} :
               earlier.epoch = last.vote.epoch => earlier.voter = last.award

\* the second of two lookups for an epoch at or after the epoch of the next
\* authorized voter returned that voter, another key than the authorized voter
C24_Witness ==
    /\ LastIsLookup
    /\ last.vote.earlier # <<>>
    /\ last.vote.earlier[1].epoch = last.vote.epoch
    /\ vs.next_authorized_voter # <<>>
    /\ last.award = <<vs.next_authorized_voter[1].voter>>
    /\ vs.next_authorized_voter[1].voter # vs.authorized_voter.voter
    /\ last.vote.epoch > vs.next_authorized_voter[1].epoch

\* the items of the ring that were written
RingWritten == {vs.buf[i] : i \in 1..Len(vs.buf)} \ {<<DefaultPubkey, 0, 0>>}

\* C25: a ring of MAX_ITEMS = 32 items: last() returns none exactly when
\* nothing was appended, otherwise the item appended last; after k appends the
\* ring holds the min(k, 32) items appended last and nothing else, so after 33
\* appends last() is the 33rd item and the 1st is no longer in the ring.
C25_RingKeepsLatest ==
    LET appended == last.vote.appended
        k == Len(appended)
        held == IF k < MAX_ITEMS THEN k ELSE MAX_ITEMS
    IN  /\ Len(vs.buf) = 32
        /\ last.op = "last" =>
              /\ last.award = <<>> <=> k = 0
              /\ k > 0 => last.award = <<appended[k]>>
        /\ RingWritten = {appended[j] : j \in (k - held + 1)..k}
        /\ Cardinality(RingWritten) = held
        /\ Cardinality({i \in 1..Len(vs.buf) : vs.buf[i] = <<DefaultPubkey, 0, 0>>})
              = MAX_ITEMS - held
        /\ k = 33 => /\ CircBufLast(vs) = <<appended[33]>>
                     /\ appended[1] \notin RingWritten

\* last() after the 33rd append returned the 33rd item, the 1st is overwritten
C25_Witness ==
    /\ last.op = "last"
    /\ Len(last.vote.appended) = 33
    /\ last.award = <<last.vote.appended[33]>>
    /\ vs.buf[1] = last.vote.appended[33]
    /\ last.vote.appended[1] \notin RingWritten

\* C29: commission_split(on) of a vote state with commission pct is
\* (0, on, false) for pct = 0, (on, 0, false) for pct >= 100 and otherwise
\* (floor(on * pct / 100), floor(on * (100 - pct) / 100), true); the portions
\* add up to on when not split and to on or on - 1 when split;
\* split(10, 50) = (5, 5, true).
C29_CommissionSplit ==
    last.op = "commission_split" =>
        LET on == last.vote.on
            pct == last.vote.commission
            mine == last.award[1]
            theirs == last.award[2]
            was_split == last.award[3]
        IN  /\ pct = 0 => last.award = <<0, on, FALSE>>
            /\ pct >= 100 => last.award = <<on, 0, FALSE>>
            /\ (0 < pct /\ pct < 100) =>
                  last.award = <<(on * pct) \div 100, (on * (100 - pct)) \div 100, TRUE>>
            /\ mine + theirs <= on
            /\ was_split => on - (mine + theirs) <= 1
            /\ ~was_split => mine + theirs = on
            /\ (on = 10 /\ pct = 50) => last.award = <<5, 5, TRUE>>

\* an amount was split with a unit discarded
C29_Witness ==
    /\ last.op = "commission_split"
    /\ last.award[3]
    /\ last.award[1] > 0
    /\ last.award[2] > 0
    /\ last.award[1] + last.award[2] = last.vote.on - 1

\* the last instruction was a Withdraw
LastIsWithdraw == last.op = "withdraw"

\* the withdraw authority asked for all the lamports of the vote account
LastIsFullWithdrawal ==
    /\ LastIsWithdraw
    /\ last.authority = last.pre.authorized_withdrawer
    /\ last.vote.lamports = last.vote.balances.vote_account

\* C26: a withdrawal of the whole balance by the withdraw authority is
\* rejected with ActiveVoteAccountClose when the clock's epoch is less than 2
\* after the epoch of the credits; otherwise it succeeds, the lamports are the
\* recipient's and the record is the default, uninitialized one.  No other
\* instruction turns an initialized record into an uninitialized one.
C26_FullWithdrawalDeinitializes ==
    /\ LastIsFullWithdrawal =>
          IF SaturatingSub(clock.epoch, last.pre.epoch_credits.epoch) < 2
          THEN /\ last.res = "ActiveVoteAccountClose"
               /\ vs = last.pre
               /\ account_lamports = last.vote.balances
          ELSE /\ last.res = "Ok"
               /\ vs = DefaultVoteState
               /\ account_lamports =
                     [vote_account |-> 0,
                      recipient |-> last.vote.balances.recipient + last.vote.lamports]
    /\ (last.op # "none" /\ IsInitialized(last.pre) /\ ~IsInitialized(vs))
          => LastIsWithdraw

\* the last instruction was an InitializeAccount of a rent-exempt account,
\* signed by the node of its data
LastIsInitialize ==
    /\ last.op = "initialize"
    /\ account_lamports.vote_account >= MinRentExemptBalance
    /\ last.authority = last.vote.init_data.node_pubkey

\* the record the claim expects of an initialization with the data, at the epoch
InitializedRecord(init_data, epoch) ==
    [version |-> 1,
     node_pubkey |-> init_data.node_pubkey,
     authorized_withdrawer |-> init_data.authorized_withdrawer,
     commission |-> init_data.commission,
     authorized_voter |-> [epoch |-> epoch, voter |-> init_data.authorized_voter],
     next_authorized_voter |-> <<>>,
     epoch_credits |-> [epoch |-> 0, credits |-> 0, prev_credits |-> 0],
     latest_timestamp |-> [slot |-> 0, timestamp |-> 0],
     latest_notarized_slot |-> 0,
     latest_notarized_block_id |-> DefaultHash,
     latest_notarized_bank_hash |-> DefaultHash,
     latest_finalized_slot |-> 0,
     latest_finalized_block_id |-> DefaultHash,
     latest_finalized_bank_hash |-> DefaultHash,
     latest_skip_start_slot |-> 0,
     latest_skip_end_slot |-> 0]

\* C27 as stated: InitializeAccount on an uninitialized account succeeds at
\* any epoch of the clock and writes the record of the data; on an initialized
\* account it fails with AccountAlreadyInitialized and changes nothing.
C27_InitializeAtAnyEpoch ==
    LastIsInitialize =>
        IF last.pre.version = 0
        THEN /\ last.res = "Ok"
             /\ vs = InitializedRecord(last.vote.init_data, clock.epoch)
        ELSE /\ last.res = "AccountAlreadyInitialized"
             /\ vs = last.pre

\* C27 amended: InitializeAccount on an uninitialized account succeeds at any
\* epoch of the clock from 1 on and writes the record of the data: version 1,
\* the node, withdrawer and commission given, the voter given with the clock's
\* epoch, no next voter, zero credits, timestamp and marks; at epoch 0 it fails
\* with InvalidArgument and the account stays uninitialized; on an initialized
\* account it fails with AccountAlreadyInitialized and changes nothing.
C27_InitializeAfterEpochZero ==
    LastIsInitialize =>
        IF last.pre.version = 0
        THEN IF clock.epoch >= 1
             THEN /\ last.res = "Ok"
                  /\ vs = InitializedRecord(last.vote.init_data, clock.epoch)
             ELSE /\ last.res = "InvalidArgument"
                  /\ vs = last.pre
        ELSE /\ last.res = "AccountAlreadyInitialized"
             /\ vs = last.pre

\* an account created with more than the minimum was initialized in a later
\* epoch than the first one the clock reached after epoch 0
C27_Witness ==
    /\ LastIsInitialize
    /\ last.res = "Ok"
    /\ clock.epoch > 1
    /\ account_lamports.vote_account > MinRentExemptBalance
    /\ vs.authorized_voter = [epoch |-> clock.epoch, voter |-> VoterKey]

\* the fields of a record that votes do not write
AdministrativeFields(s) ==
    <<s.node_pubkey, s.authorized_withdrawer, s.commission, s.authorized_voter,
      s.next_authorized_voter>>

NotarizedMarks(s) ==
    <<s.latest_notarized_slot, s.latest_notarized_block_id, s.latest_notarized_bank_hash>>

FinalizedMarks(s) ==
    <<s.latest_finalized_slot, s.latest_finalized_block_id, s.latest_finalized_bank_hash>>

SkipMarks(s) == <<s.latest_skip_start_slot, s.latest_skip_end_slot>>

\* C28: a Notarize, Finalize or Skip, whatever it returns, leaves the node,
\* the withdrawer, the commission, the authorized voter and the next
\* authorized voter, and the latest marks of the two other kinds of vote; the
\* node of an initialized account changes only by an UpdateValidatorIdentity
\* signed by the withdrawer, and its withdrawer only by an
\* Authorize(Withdrawer) signed by the withdrawer.
C28_AdministrativeFrame ==
    /\ LastIsVote => AdministrativeFields(vs) = AdministrativeFields(last.pre)
    /\ last.op = "notarize" =>
          FinalizedMarks(vs) = FinalizedMarks(last.pre) /\ SkipMarks(vs) = SkipMarks(last.pre)
    /\ last.op = "finalize" =>
          NotarizedMarks(vs) = NotarizedMarks(last.pre) /\ SkipMarks(vs) = SkipMarks(last.pre)
    /\ last.op = "skip" =>
          /\ NotarizedMarks(vs) = NotarizedMarks(last.pre)
          /\ FinalizedMarks(vs) = FinalizedMarks(last.pre)
    /\ (last.op # "none" /\ IsInitialized(last.pre)
        /\ vs.node_pubkey # last.pre.node_pubkey)
          => /\ last.op = "update_validator_identity"
             /\ last.authority = last.pre.authorized_withdrawer
             /\ vs.node_pubkey = last.vote.new_node_pubkey
    /\ (last.op # "none" /\ IsInitialized(last.pre)
        /\ vs.authorized_withdrawer # last.pre.authorized_withdrawer)
          => /\ last.op = "authorize"
             /\ last.vote.vote_authorize = "Withdrawer"
             /\ last.authority = last.pre.authorized_withdrawer
             /\ vs.authorized_withdrawer = last.vote.new_authority

\* a Notarize succeeded on an account whose node and withdrawer had been
\* changed and whose next voter was set
C28_Witness ==
    /\ last.op = "notarize"
    /\ last.res = "Ok"
    /\ vs.latest_notarized_slot > last.pre.latest_notarized_slot
    /\ vs.node_pubkey = VoterKey
    /\ vs.authorized_withdrawer = NodeKey
    /\ vs.next_authorized_voter # <<>>
    /\ vs.latest_skip_end_slot > 0

\* the last instruction was an UpdateCommission signed by the withdrawer
LastIsUpdateCommission ==
    /\ last.op = "update_commission"
    /\ last.authority = last.pre.authorized_withdrawer

\* the clock's slot is past the midpoint of a normal epoch of the schedule
LastAfterMidpoint ==
    LET epoch_schedule == last.vote.epoch_schedule IN
    /\ clock.slot >= epoch_schedule.first_normal_slot
    /\ ((clock.slot - epoch_schedule.first_normal_slot) % epoch_schedule.slots_per_epoch) * 2
          > epoch_schedule.slots_per_epoch

\* C30: an UpdateCommission signed by the withdrawer that raises the
\* commission after the midpoint of the epoch fails with
\* CommissionUpdateTooLate and leaves the commission; one that lowers it, or
\* raises it up to the midpoint or during warm-up, sets the commission.
C30_LateIncreaseRejected ==
    LastIsUpdateCommission =>
        LET is_increase == last.vote.commission > last.pre.commission
            is_decrease == last.vote.commission < last.pre.commission
        IN  /\ (is_increase /\ LastAfterMidpoint) =>
                  /\ last.res = "CommissionUpdateTooLate"
                  /\ vs.commission = last.pre.commission
            /\ (is_decrease \/ (is_increase /\ ~LastAfterMidpoint)) =>
                  /\ last.res = "Ok"
                  /\ vs.commission = last.vote.commission

\* C31 as stated: after increment_credits calls with non-decreasing epochs on
\* an empty history, credits() is the sum of the credits of the calls, every
\* entry's prev_credits is the credits of the entry before it and 0 for the
\* first entry, the epochs of the entries increase strictly and the history
\* holds at most MAX_EPOCH_CREDITS_HISTORY = 64 entries.
C31_CreditHistoryFromZero ==
    LET ec == vs.epoch_credits IN
    /\ InterfaceCredits(vs) = last.vote.total
    /\ \A i \in 2..Len(ec) : ec[i][3] = ec[i - 1][2] /\ ec[i][1] > ec[i - 1][1]
    /\ ec # <<>> => ec[1][3] = 0
    /\ Len(ec) <= 64

\* C31 amended: as stated, but the prev_credits of the first entry is 0 only
\* as long as no entry was removed; afterwards it is the credits of the entry
\* removed last.
C31_CreditHistory ==
    LET ec == vs.epoch_credits IN
    /\ InterfaceCredits(vs) = last.vote.total
    /\ \A i \in 2..Len(ec) : ec[i][3] = ec[i - 1][2] /\ ec[i][1] > ec[i - 1][1]
    /\ ec # <<>> => ec[1][3] = IF last.vote.dropped = <<>> THEN 0
                               ELSE last.vote.dropped[1][2]
    /\ Len(ec) <= 64

\* the history is full and its oldest entry was removed, after an epoch
\* without credits had been moved on
C31_Witness ==
    /\ last.op = "increment_credits"
    /\ Len(vs.epoch_credits) = MAX_EPOCH_CREDITS_HISTORY
    /\ last.vote.dropped # <<>>
    /\ last.vote.dropped[1][2] > 0
    /\ vs.epoch_credits[1][1] > last.vote.dropped[1][1] + 1

\* C32: process_timestamp(slot, ts) fails with TimestampTooOld and leaves
\* last_timestamp as it was when slot is below the recorded slot, or ts is
\* below the recorded timestamp, or slot is the recorded slot, not 0, with a
\* different ts; otherwise it succeeds and records (slot, ts).  The recorded
\* slot and timestamp never decrease.
C32_ProcessTimestamp ==
    last.op = "process_timestamp" =>
        LET was == last.pre.last_timestamp
            slot == last.vote.slot
            ts == last.vote.timestamp
            tooOld == \/ slot < was.slot
                      \/ ts < was.timestamp
                      \/ (slot = was.slot /\ ts # was.timestamp /\ was.slot # 0)
        IN  /\ tooOld => (last.res = "TimestampTooOld" /\ vs.last_timestamp = was)
            /\ ~tooOld => /\ last.res = "Ok"
                          /\ vs.last_timestamp = [slot |-> slot, timestamp |-> ts]
            /\ vs.last_timestamp.slot >= was.slot
            /\ vs.last_timestamp.timestamp >= was.timestamp

\* a later timestamp for a later slot was rejected for nothing but its time:
\* the slot is above the recorded one, the timestamp below
C32_Witness ==
    /\ last.op = "process_timestamp"
    /\ last.res = "TimestampTooOld"
    /\ last.vote.slot > last.pre.last_timestamp.slot
    /\ last.vote.timestamp < last.pre.last_timestamp.timestamp
    /\ last.pre.last_timestamp.slot > 0

\* the checks of a Finalize vote, each taken alone on the record before it
LastFinalizeSignerFails == last.authority # last.pre.authorized_voter.voter
LastFinalizeTooOld == last.vote.slot <= last.pre.latest_finalized_slot
LastFinalizeReplayFails ==
    \/ last.vote.slot \notin DOMAIN slot_hashes
    \/ slot_hashes[last.vote.slot] = <<>>
    \/ slot_hashes[last.vote.slot][1] # last.vote.replayed_bank_hash
LastFinalizeInSkipRange ==
    /\ last.pre.latest_skip_start_slot <= last.vote.slot
    /\ last.vote.slot <= last.pre.latest_skip_end_slot
ReplayErrors == {"SlotHashesMissingKey", "ReplayBankHashMismatch"}

\* C33 as stated: a Finalize vote reports the error of the first failing
\* check in the order signer, VoteTooOld, replay, skip range; a vote that
\* fails both the replay and the skip-range check reports the replay error.
C33_FinalizeReplayBeforeSkipRange ==
    (last.op = "finalize" /\ last.vote.version = 1) =>
        IF LastFinalizeSignerFails THEN last.res = "MissingRequiredSignature"
        ELSE IF LastFinalizeTooOld THEN last.res = "VoteTooOld"
        ELSE IF LastFinalizeReplayFails THEN last.res \in ReplayErrors
        ELSE IF LastFinalizeInSkipRange
             THEN last.res = "SkipSlotRangeContainsFinalizationVote"
        ELSE last.res \notin ReplayErrors \cup
                 {"MissingRequiredSignature", "VoteTooOld",
                  "SkipSlotRangeContainsFinalizationVote"}

\* C33 amended: the order is signer, VoteTooOld, skip range, replay; a vote
\* that fails both the replay and the skip-range check reports the
\* skip-range error.
C33_FinalizeCheckOrder ==
    (last.op = "finalize" /\ last.vote.version = 1) =>
        IF LastFinalizeSignerFails THEN last.res = "MissingRequiredSignature"
        ELSE IF LastFinalizeTooOld THEN last.res = "VoteTooOld"
        ELSE IF LastFinalizeInSkipRange
             THEN last.res = "SkipSlotRangeContainsFinalizationVote"
        ELSE IF LastFinalizeReplayFails THEN last.res \in ReplayErrors
        ELSE last.res \notin ReplayErrors \cup
                 {"MissingRequiredSignature", "VoteTooOld",
                  "SkipSlotRangeContainsFinalizationVote"}

\* a Finalize by the voter, above the finalized slot, fails both the replay
\* and the skip-range check
C33_Witness ==
    /\ last.op = "finalize"
    /\ last.vote.version = 1
    /\ ~LastFinalizeSignerFails
    /\ ~LastFinalizeTooOld
    /\ LastFinalizeReplayFails
    /\ LastFinalizeInSkipRange
    /\ last.res = "SkipSlotRangeContainsFinalizationVote"

\* the credits the slots from..to are owed by C34: nothing for the clock's
\* slot and for a slot of the ledger, latency_to_credits(clock.slot - s) for
\* every other slot s
RECURSIVE SkipCreditsOwed(_, _)
SkipCreditsOwed(from, to) ==
    IF from > to THEN 0
    ELSE (IF from # clock.slot /\ slot_hashes[from] = <<>>
          THEN latency_to_credits(clock.slot - from) ELSE 0)
         + SkipCreditsOwed(from + 1, to)

\* C34: process_skip_credits returns SkipEndSlotExceedsCurrentSlot exactly
\* when vote_end_slot > clock.slot, and then changes nothing.  A range that
\* ends at clock.slot or before passes: the clock's slot earns nothing and
\* every earlier absent slot s of the newly covered range earns
\* latency_to_credits(clock.slot - s); when the call succeeds the sum is
\* added to the credits of the record.
C34_SkipCredits ==
    last.op = "process_skip_credits" =>
        LET newly == IF last.pre.latest_skip_end_slot + 1 > last.vote.start_slot
                     THEN last.pre.latest_skip_end_slot + 1
                     ELSE last.vote.start_slot
            owed == SkipCreditsOwed(newly, last.vote.end_slot)
            total(s) == s.epoch_credits.prev_credits + s.epoch_credits.credits
        IN  /\ last.res = "SkipEndSlotExceedsCurrentSlot"
                  <=> last.vote.end_slot > clock.slot
            /\ last.vote.end_slot > clock.slot => vs = last.pre
            /\ last.vote.end_slot <= clock.slot =>
                  /\ last.award[1].earned_credits = owed
                  /\ last.res = "Ok" => total(vs) = total(last.pre) + owed

\* the range ends at the clock's slot and the five absent slots before it
\* earn 13 + 14 + 15 + 16 + 16 = 74 credits
C34_Witness ==
    /\ last.op = "process_skip_credits"
    /\ last.res = "Ok"
    /\ last.vote.end_slot = clock.slot
    /\ last.vote.start_slot = clock.slot - 5
    /\ last.pre.latest_skip_end_slot < last.vote.start_slot
    /\ \A s \in last.vote.start_slot..clock.slot : slot_hashes[s] = <<>>
    /\ vs.epoch_credits.credits = 74
    /\ vs.epoch_credits.prev_credits = 0

\* the last operation is a Skip vote of the current version that passes the
\* four checks of process_skip_vote and process_skip_credits
LastSkipPassedChecks ==
    /\ last.op = "skip"
    /\ last.vote.version = 1
    /\ last.authority = last.pre.authorized_voter.voter
    /\ last.vote.end_slot >= last.vote.start_slot
    /\ ~(/\ last.vote.start_slot <= last.pre.latest_finalized_slot
         /\ last.pre.latest_finalized_slot <= last.vote.end_slot)
    /\ last.vote.end_slot <= clock.slot

\* no slot of the range of the last Skip vote is creditable: each is covered
\* by the recorded skip range, on the ledger or the clock's slot
LastSkipNothingCreditable ==
    \A s \in last.vote.start_slot..last.vote.end_slot :
        \/ s <= last.pre.latest_skip_end_slot
        \/ s = clock.slot
        \/ slot_hashes[s] # <<>>

\* C35: a Skip vote that passes its four checks (signer, end >= start,
\* finalized slot outside the range, end not after the clock's slot) succeeds
\* and records its range; when no slot of the range is creditable it leaves
\* epoch_credits as they were.
C35_ValidSkipSucceeds ==
    LastSkipPassedChecks =>
        /\ last.res = "Ok"
        /\ vs.latest_skip_start_slot = last.vote.start_slot
        /\ vs.latest_skip_end_slot = last.vote.end_slot
        /\ LastSkipNothingCreditable => vs.epoch_credits = last.pre.epoch_credits

\* the skip credit of the slots of a set, each counted once
RECURSIVE SkipCreditOnce(_)
SkipCreditOnce(slots) ==
    IF slots = {} THEN 0
    ELSE LET s == CHOOSE x \in slots : TRUE
         IN  (IF s # clock.slot /\ slot_hashes[s] = <<>>
              THEN latency_to_credits(clock.slot - s) ELSE 0)
             + SkipCreditOnce(slots \ {s})

\* C36: over a sequence of successful Skip votes on one record, under one
\* clock and ledger, every slot contributes skip credit at most once: the
\* credits of the record never exceed the credit of the slots the votes
\* cover, each slot counted once.
C36_NoDoubleSkipCredit ==
    vs.epoch_credits.prev_credits + vs.epoch_credits.credits
        <= SkipCreditOnce(last.vote.covered)

\* C37: the unset latest_notarized mark (slot 0) counts as minus infinity: on
\* a record whose mark is unset, so that no Notarize has succeeded on it, a
\* Notarize vote is not rejected with VoteTooOld, whatever its slot.
C37_UnsetNotarizedIsMinusInfinity ==
    (last.op = "notarize" /\ last.pre.latest_notarized_slot = 0)
        => last.res # "VoteTooOld"

\* C38: earned credits are never lost: whatever a Notarize, Finalize or Skip
\* vote returns, it lowers neither prev_credits + credits, nor prev_credits,
\* nor the epoch of epoch_credits.
C38_CreditsNeverLost ==
    LastIsVote =>
        /\ vs.epoch_credits.prev_credits + vs.epoch_credits.credits
              >= last.pre.epoch_credits.prev_credits + last.pre.epoch_credits.credits
        /\ vs.epoch_credits.prev_credits >= last.pre.epoch_credits.prev_credits
        /\ vs.epoch_credits.epoch >= last.pre.epoch_credits.epoch

\* a vote moved the credits on to a later epoch while the record held
\* credits of the epoch before, and earned less than that epoch had
C38_Witness ==
    /\ LastIsVote
    /\ last.res = "Ok"
    /\ last.pre.epoch_credits.credits > 0
    /\ vs.epoch_credits.epoch > last.pre.epoch_credits.epoch
    /\ vs.epoch_credits.credits < last.pre.epoch_credits.credits
    /\ vs.epoch_credits.prev_credits > last.pre.epoch_credits.prev_credits

\* C39: authorize(Voter, new_key) is accepted only when signed by the
\* withdraw authority or by the current voter of the record; otherwise it
\* returns MissingRequiredSignature and changes nothing.  On success the
\* current voter stays and the pending voter becomes (new_key,
\* leader_schedule_epoch + 1) in place of an earlier one: the lookup returns
\* new_key for every epoch from leader_schedule_epoch + 1 on and, for no
\* epoch, a key that was pending before and is neither new_key nor the
\* current voter's.
C39_AuthorizeVoter ==
    (LastIsAuthorize /\ last.vote.vote_authorize = "Voter") =>
        IF last.authority \in {last.pre.authorized_withdrawer,
                               last.pre.authorized_voter.voter}
        THEN /\ last.res = "Ok"
             /\ vs.authorized_voter = last.pre.authorized_voter
             /\ vs.next_authorized_voter
                    = <<[epoch |-> clock.leader_schedule_epoch + 1,
                         voter |-> last.vote.new_authority]>>
             /\ vs = [last.pre EXCEPT !.next_authorized_voter = vs.next_authorized_voter]
             /\ \A e \in LookupEpochs :
                   /\ e >= clock.leader_schedule_epoch + 1
                         => GetAuthorizedVoter(vs, e) = <<last.vote.new_authority>>
                   /\ \A i \in DOMAIN last.pre.next_authorized_voter :
                         LET key == last.pre.next_authorized_voter[i].voter
                         IN  key \notin {last.vote.new_authority,
                                         last.pre.authorized_voter.voter}
                                 => GetAuthorizedVoter(vs, e) # <<key>>
        ELSE last.res = "MissingRequiredSignature" /\ vs = last.pre

\* the current voter signed an authorize that replaced a pending voter with
\* another key and a later epoch
C39_Witness ==
    /\ LastIsAuthorize
    /\ last.res = "Ok"
    /\ last.authority = last.pre.authorized_voter.voter
    /\ last.authority # last.pre.authorized_withdrawer
    /\ last.pre.next_authorized_voter # <<>>
    /\ last.pre.next_authorized_voter[1].voter
           \notin {last.vote.new_authority, last.pre.authorized_voter.voter}
    /\ last.pre.next_authorized_voter[1].epoch < vs.next_authorized_voter[1].epoch

\* C40: voter epochs are positive: once the account is initialized, through
\* initialize, authorize, votes, commission and identity updates and
\* withdrawals, the epoch of its current voter is above 0 and so is the epoch
\* of its pending voter when one is set; a record whose current voter has
\* epoch 0 is never written, so only the blank account has one.
C40_VoterEpochsPositive ==
    /\ IsInitialized(vs) =>
          /\ vs.authorized_voter.epoch > 0
          /\ \A i \in DOMAIN vs.next_authorized_voter :
                vs.next_authorized_voter[i].epoch > 0
    /\ vs.authorized_voter.epoch = 0 => vs = DefaultVoteState

\* an initialized account with a pending voter refused the withdrawal of its
\* whole balance, which would have written the blank record
C40_Witness ==
    /\ IsInitialized(vs)
    /\ vs.next_authorized_voter # <<>>
    /\ last.op = "withdraw"
    /\ last.res = "InvalidArgument"
    /\ last.vote.lamports = last.vote.balances.vote_account

====
